---- MODULE Spec2Model ----
(***************************************************************************)
(* Patient-satisfaction survey: the submission form, the Response Store    *)
(* and the dashboard panels (SurveyTable, CommentsSection, SurveyCharts).  *)
(*                                                                         *)
(* The specifications below share one list of variables:                   *)
(*   SpecCharts  the aggregations SurveyCharts renders from filteredSurveys*)
(*   SpecPanel   a mounted SurveyTable / CommentsSection panel, its fetches*)
(*               of the Response Store and its filter effect               *)
(*   SpecForm    one session of SurveyForm                                 *)
(*   SpecTreatment   the body-zone tally TreatmentAnalytics renders        *)
(*   SpecNormalizer  the rating normalizers applied to sample ratings      *)
(*   SpecBrowse  a SurveyTable or comments browser over several pages      *)
(*   SpecDateRange   the date selection of the charts, treatment and table *)
(*               panels                                                    *)
(*   SpecFields  the conditional free-text fields of SurveyForm            *)
(*   SpecRoles   row-level security of survey_responses and user_roles     *)
(*   SpecMigration   the waiting_time vocabulary migrations                *)
(*   SpecDashboard   the Dashboard page and its auth effect                *)
(*                                                                         *)
(* Strings that the code inspects character by character (search terms,    *)
(* comments, ids, month labels) are sequences of character codes.  Instants*)
(* are hours since 2024-01-01T00:00Z in a calendar of 30-day months.       *)
(***************************************************************************)
EXTENDS Integers, Sequences, FiniteSets, TLC

VARIABLES
    \* --- Response Store (table survey_responses) and its realtime channel
    store,            \* rows in insertion order (created_at = now() ascending)
    pendingNotifs,    \* INSERT notifications not yet delivered to the panel
    \* --- a dashboard panel (React component state)
    panel,            \* which component is mounted: "table" or "comments"
    mounted,          \* the mount effect has run and the channel is subscribed
    surveys,          \* useState: the held collection
    filteredSurveys,  \* useState: the displayed collection
    isLoading,        \* useState
    searchTerm,       \* useState
    npsFilter,        \* useState
    dateFrom,         \* useState (SurveyTable)
    dateTo,           \* useState (SurveyTable)
    sortBy,           \* useState (CommentsSection)
    currentPage,      \* useState
    fetches,          \* every fetchSurveys call issued so far, by issue order
    toasts,           \* number of destructive toasts shown
    unhandled,        \* an exception escaped fetchSurveys
    \* --- SurveyCharts render output
    tz,               \* the browser's UTC offset in hours
    rendered,         \* the component body has been evaluated
    npsData,          \* calculateNPS(filteredSurveys)
    npsTimeData,      \* useMemo: monthly NPS trend
    averages,         \* calculateAverages(filteredSurveys)
    barChartData,     \* the per-field bars
    averageSatisfaction,      \* the summary composite (normalized averages)
    averageSatisfactionPlain, \* the summary composite of src/unnamed/part_002
    referralSourceData,       \* useMemo: referral breakdown
    \* --- TreatmentAnalytics render output
    bodyZoneData,     \* useMemo: body-zone tally
    zoneColors,       \* tier colours of the diagram and of the zone cards
    \* --- Rating Normalizer applied to one value
    normalizerIn,     \* [rating, max]: the value and the scale it is read on
    normalizerOut,    \* the normalizer's result
    \* --- SurveyForm
    formData,         \* react-hook-form values
    isSubmitting,     \* useState
    isSubmitted,      \* useState
    insertReq,        \* every insert the form has issued, by issue order
    created,          \* rows this form session has created in the store
    \* --- the date selector of SurveyCharts / TreatmentAnalytics
    dateFilter,       \* useState('all')
    customDateFrom,   \* useState<Date | undefined>()
    customDateTo,     \* useState<Date | undefined>()
    \* --- access control of the database
    userRoles,        \* table user_roles: the <<user_id, role>> rows
    lastRequest,      \* the latest statement a client ran and its outcome
    \* --- the waiting_time vocabulary migration
    waitingColumn,    \* survey_responses.waiting_time, row by row
    waitingCheck,     \* the constraint survey_responses_waiting_time_check
    migration,        \* the migration script being run and its progress
    \* --- the Dashboard page and the auth client
    authSession,      \* the user of the auth client's session, or NoUser
    dashboard,        \* Dashboard's user and isLoading state, and the route
    listener,         \* the onAuthStateChange subscription of the auth effect
    sessionChecks     \* the getSession() promises of the auth effect

storeVars  == <<store, pendingNotifs>>
panelVars  == <<panel, mounted, surveys, filteredSurveys, isLoading, searchTerm,
                npsFilter, dateFrom, dateTo, sortBy, currentPage, fetches,
                toasts, unhandled>>
chartVars  == <<tz, rendered, npsData, npsTimeData, averages, barChartData,
                averageSatisfaction, averageSatisfactionPlain, referralSourceData,
                bodyZoneData, zoneColors, normalizerIn, normalizerOut>>
formVars   == <<formData, isSubmitting, isSubmitted, insertReq, created>>
dateVars   == <<dateFilter, customDateFrom, customDateTo>>
dbVars     == <<userRoles, lastRequest>>
migVars    == <<waitingColumn, waitingCheck, migration>>
dashVars   == <<authSession, dashboard, listener, sessionChecks>>
sysVars    == <<dateVars, dbVars, migVars, dashVars>>
vars       == <<storeVars, panelVars, chartVars, formVars, sysVars>>

NULL     == "null"   \* a state variable that holds nothing yet
NullText == <<0>>    \* SQL NULL in a text column (no string holds code 0)
NoRating == -1       \* SQL NULL in a rating column
NoDate   == -1       \* useState<Date | undefined>(): no date picked
NoText   == ""       \* null or '' in a categorical text column (both falsy)

-----------------------------------------------------------------------------
(* Bounds of the model *)
MaxScores  == 8    \* longest collection of band-sample scores (SpecCharts)
MaxShort   == 2    \* longest collection drawing scores from all of 0..10
MaxMonths  == 3    \* longest collection with varied creation instants
MaxRated   == 3    \* longest collection with varied ratings and sources
MaxZoned   == 3    \* longest collection with varied body zones (SpecTreatment)
MaxCrowd   == 12   \* most responses for one body zone
MaxSample  == 7    \* largest rating handed to a normalizer (SpecNormalizer)
MaxBrowse  == 13   \* longest store of SpecBrowse
MaxFieldSubmits == 1   \* inserts of one form session of SpecFields
MaxSurveys == 2    \* rows of the store of SpecRoles
MaxRows    == 3    \* rows of the table of SpecMigration
MaxDated   == 2    \* longest collection of SpecDateRange

-----------------------------------------------------------------------------
(* Generic sequence helpers *)

Range(s) == {s[i] : i \in 1..Len(s)}

RECURSIVE SumSeq(_)
SumSeq(s) == IF s = <<>> THEN 0 ELSE Head(s) + SumSeq(Tail(s))

RECURSIVE Reverse(_)
Reverse(s) == IF s = <<>> THEN <<>> ELSE Append(Reverse(Tail(s)), Head(s))

\* Array.prototype.sort is stable and every comparator used here is the sign of
\* a difference of keys (a strict weak order), so the element at index i ends
\* at 1 + the number of elements that compare before it, or compare equal to it
\* and precede it in the input.  before[i][j] is "compare(s[i], s[j]) < 0".
SortBy(s, before) ==
    LET n == Len(s)
        rank(i) == 1 + Cardinality({j \in 1..n :
                        \/ before[j][i]
                        \/ (~before[i][j] /\ j < i)})
    IN  [k \in 1..n |-> s[CHOOSE i \in 1..n : rank(i) = k]]

\* Lexicographic "less than" on sequences of integers
RECURSIVE LexLess(_, _)
LexLess(a, b) ==
    IF b = <<>> THEN FALSE
    ELSE IF a = <<>> THEN TRUE
    ELSE IF Head(a) # Head(b) THEN Head(a) < Head(b)
    ELSE LexLess(Tail(a), Tail(b))

-----------------------------------------------------------------------------
(* Numbers *)

\* Math.round(n / d) for d > 0: the nearest integer, a tie going to +Infinity,
\* i.e. floor(n/d + 1/2).  (\div is the floor division.)
MathRound(n, d) == (2 * n + d) \div (2 * d)

\* Round half away from zero of n / d for d > 0
RoundHalfAwayFromZero(n, d) ==
    IF n >= 0 THEN (2 * n + d) \div (2 * d) ELSE -((2 * (-n) + d) \div (2 * d))

-----------------------------------------------------------------------------
(* Strings as sequences of character codes *)

\* String.prototype.toLowerCase on one character code ('A'..'Z' are 65..90)
LowerChar(c) == IF c >= 65 /\ c <= 90 THEN c + 32 ELSE c

toLowerCase(str) == [i \in 1..Len(str) |-> LowerChar(str[i])]

\* String.prototype.includes
includes(str, sub) ==
    \E i \in 0..(Len(str) - Len(sub)) : SubSeq(str, i + 1, i + Len(sub)) = sub

-----------------------------------------------------------------------------
(* Instants and calendar months *)

HoursPerMonth == 30 * 24

\* The instant h hours into the month with index idx (0 = January 2024), UTC
At(idx, h) == idx * HoursPerMonth + h

\* getFullYear / getMonth of a Date, which read the browser's local time
LocalMonthIndex(t) == (t + tz) \div HoursPerMonth

\* format(date, 'yyyy-MM'): the local year and month <<yyyy, MM>>
FormatYearMonth(t) ==
    <<2024 + (LocalMonthIndex(t) \div 12), (LocalMonthIndex(t) % 12) + 1>>

\* new Date(month + '-01'): a date-only ISO string is parsed as UTC midnight
ParseMonthStart(key) == At((key[1] - 2024) * 12 + (key[2] - 1), 0)

\* The es locale's abbreviated month names: ene feb mar abr may jun jul ago
\* sep oct nov dic
MonthAbbrEs ==
    << <<101, 110, 101>>, <<102, 101, 98>>,  <<109, 97, 114>>, <<97, 98, 114>>,
       <<109, 97, 121>>,  <<106, 117, 110>>, <<106, 117, 108>>, <<97, 103, 111>>,
       <<115, 101, 112>>, <<111, 99, 116>>,  <<110, 111, 118>>, <<100, 105, 99>> >>

Digits4(y) ==
    <<48 + (y \div 1000), 48 + ((y \div 100) % 10), 48 + ((y \div 10) % 10), 48 + (y % 10)>>

\* format(date, 'MMM yyyy', { locale: es }), e.g. "abr 2025"
FormatMonthLabel(t) ==
    LET ym == FormatYearMonth(t)
    IN  MonthAbbrEs[ym[2]] \o <<32>> \o Digits4(ym[1])

\* a.localeCompare(b) < 0.  The labels are three lower-case ASCII letters, a
\* space and four digits, for which collation order is code order.
LocaleBefore(a, b) == LexLess(a, b)

-----------------------------------------------------------------------------
(* Survey rows *)

\* A row of survey_responses as the dashboard reads it.  ratings is
\* <<website_design_rating, communication_clarity, reception_friendliness,
\*   clinic_environment, doctor_listening, explanation_clarity, consultation_time>>
\* The categorical columns get the values of a knee patient who names no
\* referral source; the collections that vary them are built with EXCEPT.
SurveyResponse(id, nps, at, comment, ratings) ==
    [id                     |-> id,
     nps_score              |-> nps,
     created_at             |-> at,
     additional_comments    |-> comment,
     website_design_rating  |-> ratings[1],
     communication_clarity  |-> ratings[2],
     reception_friendliness |-> ratings[3],
     clinic_environment     |-> ratings[4],
     doctor_listening       |-> ratings[5],
     explanation_clarity    |-> ratings[6],
     consultation_time      |-> ratings[7],
     how_did_you_know_us    |-> NoText,
     body_area              |-> "rodilla",
     other_body_area        |-> NoText]

-----------------------------------------------------------------------------
(* NPS Classifier: SurveyCharts.calculateNPS *)

IsPromoter(survey)  == survey.nps_score >= 9

\* Mutant of IsPassive: the passive band reaches into the promoter band
IsPassiveUpTo9(survey) == survey.nps_score >= 7 /\ survey.nps_score <= 9

IsPassive(survey)   == survey.nps_score >= 7 /\ survey.nps_score <= 8
IsDetractor(survey) == survey.nps_score <= 6

\* Math.round(((promoters - detractors) / total) * 100).  With at most
\* MaxScores + 1 responses the double-precision quotient rounds as the exact one.
\* Mutant of NpsValue: the detractors are not subtracted
NpsValueNoDetractors(promoters, detractors, total) ==
    MathRound(promoters * 100, total)

NpsValue(promoters, detractors, total) ==
    MathRound((promoters - detractors) * 100, total)

calculateNPS(list) ==
    IF Len(list) = 0
    THEN [nps |-> 0, promoters |-> 0, passives |-> 0, detractors |-> 0]
    ELSE LET promoters  == Len(SelectSeq(list, IsPromoter))
             passives   == Len(SelectSeq(list, IsPassive))
             detractors == Len(SelectSeq(list, IsDetractor))
         IN  [nps        |-> NpsValue(promoters, detractors, Len(list)),
              promoters  |-> promoters,
              passives   |-> passives,
              detractors |-> detractors]

-----------------------------------------------------------------------------
(* Aggregation Engine: SurveyCharts.npsTimeData *)

\* The reduce that groups by month key.  A JavaScript object lists its string
\* keys in insertion order, so the groups are a sequence in first-seen order.
RECURSIVE GroupByMonth(_, _)
GroupByMonth(list, acc) ==
    IF list = <<>> THEN acc
    ELSE LET survey   == Head(list)
             monthKey == FormatYearMonth(survey.created_at)
             hit      == {i \in 1..Len(acc) : acc[i].month = monthKey}
         IN  IF hit = {}
             THEN GroupByMonth(Tail(list),
                      Append(acc, [month |-> monthKey, surveys |-> <<survey>>]))
             ELSE LET i == CHOOSE i \in hit : TRUE
                  IN  GroupByMonth(Tail(list),
                          [acc EXCEPT ![i].surveys = Append(@, survey)])

TrendPoint(group) ==
    [mes        |-> FormatMonthLabel(ParseMonthStart(group.month)),
     nps        |-> calculateNPS(group.surveys).nps,
     respuestas |-> Len(group.surveys)]

MesBefore(a, b) == LocaleBefore(a.mes, b.mes)

\* .sort((a, b) => a.mes.localeCompare(b.mes))
SortTrend(points) ==
    SortBy(points, [i \in 1..Len(points) |->
                       [j \in 1..Len(points) |-> MesBefore(points[i], points[j])]])

ComputeNpsTimeData(list) ==
    IF Len(list) = 0 THEN <<>>
    ELSE LET groups == GroupByMonth(list, <<>>)
         IN  SortTrend([i \in 1..Len(groups) |-> TrendPoint(groups[i])])

-----------------------------------------------------------------------------
(* Numbers with a fractional part: <<numerator, denominator>>, denominator > 0;
   <<0, 0>> is NaN.  (The quotients below have small denominators, for which
   the double-precision results compare and round as the exact ones.) *)

NaN == <<0, 0>>

IsNaN(x) == x[2] = 0

RECURSIVE Gcd(_, _)
Gcd(a, b) == IF b = 0 THEN a ELSE Gcd(b, a % b)

Abs(n) == IF n < 0 THEN -n ELSE n

\* n / d in lowest terms; 0 / 0 is NaN
Frac(n, d) ==
    IF d = 0 THEN NaN
    ELSE LET g == Gcd(Abs(n), d) IN <<n \div g, d \div g>>

FracEq(x, y)   == x[1] * y[2] = y[1] * x[2]
FracLeq(x, y)  == x[1] * y[2] <= y[1] * x[2]
FracLess(x, y) == x[1] * y[2] < y[1] * x[2]

FracAdd(x, y) == Frac(x[1] * y[2] + y[1] * x[2], x[2] * y[2])

RECURSIVE FracSum(_)
FracSum(s) == IF s = <<>> THEN <<0, 1>> ELSE FracAdd(Head(s), FracSum(Tail(s)))

\* x / k for an integer k >= 0
FracOver(x, k) == IF IsNaN(x) THEN NaN ELSE Frac(x[1], x[2] * k)

\* Math.max(lo, x): the clamp without its Math.min
ClampBelowOnly(x, lo, hi) ==
    IF FracLess(x, <<lo, 1>>) THEN <<lo, 1>> ELSE x

\* Math.max(lo, Math.min(hi, x)) for integers lo <= hi
Clamp(x, lo, hi) ==
    IF FracLess(<<hi, 1>>, x) THEN <<hi, 1>>
    ELSE IF FracLess(x, <<lo, 1>>) THEN <<lo, 1>>
    ELSE x

\* Math.round(x * 100) / 100
RoundHundredths(x) == Frac(MathRound(100 * x[1], x[2]), 100)

-----------------------------------------------------------------------------
(* Rating Normalizer: SurveyCharts.normalizeWebsiteRating & co. *)

\* (Math.max(1, Math.min(max, rating)) - 1) / (max - 1) * 9 + 1
Rescale(rating, max) ==
    LET c == Clamp(rating, 1, max)
    IN  Frac(9 * (c[1] - c[2]) + (max - 1) * c[2], (max - 1) * c[2])

normalizeWebsiteRating(rating)       == Rescale(rating, 3)
normalizeCommunicationRating(rating) == Rescale(rating, 3)
normalizeOtherRatings(rating)        == Rescale(rating, 5)

-----------------------------------------------------------------------------
(* Aggregation Engine: SurveyCharts.calculateAverages, barChartData,
   averageSatisfaction, referralSourceData *)

RatingFields ==
    <<"website_design_rating", "communication_clarity", "reception_friendliness",
      "clinic_environment", "doctor_listening", "explanation_clarity",
      "consultation_time">>

\* The declared scale of a rating field: 1-3 for the first two, 1-5 otherwise
ScaleMax(field) ==
    IF field \in {"website_design_rating", "communication_clarity"} THEN 3 ELSE 5

\* "survey.<field> || 0": null and 0 are falsy
RatingOrZero(rating) == IF rating = NoRating THEN 0 ELSE rating

\* surveys.reduce((sum, survey) => sum + (survey.<field> || 0), 0) / surveys.length
FieldAverage(list, field) ==
    Frac(SumSeq([i \in 1..Len(list) |-> RatingOrZero(list[i][field])]), Len(list))

\* calculateAverages: {} for the empty collection, else one average per field
calculateAverages(list) ==
    IF Len(list) = 0 THEN <<>>
    ELSE [f \in Range(RatingFields) |-> FieldAverage(list, f)]

\* "averages.<field> || fallback": undefined and 0 are falsy
AverageOr(avgs, field, fallback) ==
    IF field \in DOMAIN avgs /\ avgs[field][1] # 0 THEN avgs[field] ELSE <<fallback, 1>>

BarCategories ==
    <<"Web", "Comunicación", "Recepción", "Ambiente", "Doctor", "Explicación", "Tiempo">>

\* barChartData: each average, "|| 1", rescaled to 1-10, rounded to hundredths
ComputeBarChartData(avgs) ==
    [i \in 1..Len(RatingFields) |->
        [category |-> BarCategories[i],
         promedio |-> RoundHundredths(Rescale(AverageOr(avgs, RatingFields[i], 1),
                                              ScaleMax(RatingFields[i]))),
         escala   |-> ScaleMax(RatingFields[i])]]

\* averageSatisfaction: the seven normalized averages, summed, / 7
ComputeAverageSatisfaction(avgs) ==
    FracOver(
        FracSum(<<normalizeWebsiteRating(AverageOr(avgs, "website_design_rating", 1)),
                  normalizeCommunicationRating(AverageOr(avgs, "communication_clarity", 1)),
                  normalizeOtherRatings(AverageOr(avgs, "reception_friendliness", 1)),
                  normalizeOtherRatings(AverageOr(avgs, "clinic_environment", 1)),
                  normalizeOtherRatings(AverageOr(avgs, "doctor_listening", 1)),
                  normalizeOtherRatings(AverageOr(avgs, "explanation_clarity", 1)),
                  normalizeOtherRatings(AverageOr(avgs, "consultation_time", 1))>>),
        7)

\* src/unnamed/part_002: Object.values(averages).reduce((sum, avg) =>
\*   sum + (avg || 0), 0) / Object.keys(averages).length
ComputeAverageSatisfactionPlain(avgs) ==
    LET keys == SelectSeq(RatingFields, LAMBDA f : f \in DOMAIN avgs)
    IN  FracOver(FracSum([i \in 1..Len(keys) |-> AverageOr(avgs, keys[i], 0)]),
                 Len(keys))

getSourceLabel(source) ==
    IF source = "redes_sociales" THEN "Redes sociales"
    ELSE IF source = "clinica_fisioterapia" THEN "Clínica de fisioterapia"
    ELSE IF source = "un_amigo" THEN "Un amigo"
    ELSE IF source = "un_conocido" THEN "Un conocido"
    ELSE source

\* acc[key] = (acc[key] || 0) + 1 over a sequence of keys.  A JavaScript
\* object lists its (non-numeric) string keys in insertion order.
RECURSIVE CountByKey(_, _)
CountByKey(keys, acc) ==
    IF keys = <<>> THEN acc
    ELSE LET hit == {i \in 1..Len(acc) : acc[i].key = Head(keys)}
         IN  IF hit = {}
             THEN CountByKey(Tail(keys), Append(acc, [key |-> Head(keys), count |-> 1]))
             ELSE LET i == CHOOSE i \in hit : TRUE
                  IN  CountByKey(Tail(keys), [acc EXCEPT ![i].count = @ + 1])

ComputeReferralSourceData(list) ==
    IF Len(list) = 0 THEN <<>>
    ELSE LET present == SelectSeq(list, LAMBDA survey : survey.how_did_you_know_us # NoText)
             sourceCount ==
                 CountByKey([i \in 1..Len(present) |->
                                getSourceLabel(present[i].how_did_you_know_us)], <<>>)
         IN  [i \in 1..Len(sourceCount) |->
                 [source     |-> sourceCount[i].key,
                  count      |-> sourceCount[i].count,
                  percentage |-> MathRound(sourceCount[i].count * 100, Len(list))]]

-----------------------------------------------------------------------------
(* Filter/Sort Pipeline: the NPS-band predicate of SurveyTable.filterSurveys *)

NpsBandOptions == {"promoters", "passives", "detractors"}

\* The branch of "if (npsFilter !== 'all')" that applies; any other value of
\* npsFilter filters nothing.
PassesNpsFilter(filter, survey) ==
    IF filter = "promoters" THEN survey.nps_score >= 9
    ELSE IF filter = "passives" THEN survey.nps_score >= 7 /\ survey.nps_score <= 8
    ELSE IF filter = "detractors" THEN survey.nps_score <= 6
    ELSE TRUE

-----------------------------------------------------------------------------
(* States after construction (the useState initial values) *)

StoreEmpty == store = <<>> /\ pendingNotifs = 0

PanelConstructed ==
    /\ mounted = FALSE
    /\ surveys = <<>>
    /\ filteredSurveys = <<>>
    /\ isLoading = TRUE
    /\ searchTerm = <<>>
    /\ npsFilter = "all"
    /\ dateFrom = NoDate
    /\ dateTo = NoDate
    /\ sortBy = "newest"
    /\ currentPage = 1
    /\ fetches = <<>>
    /\ toasts = 0
    /\ unhandled = FALSE

ChartsNotRendered ==
    /\ rendered = FALSE
    /\ npsData = NULL
    /\ npsTimeData = NULL
    /\ averages = NULL
    /\ barChartData = NULL
    /\ averageSatisfaction = NULL
    /\ averageSatisfactionPlain = NULL
    /\ referralSourceData = NULL
    /\ bodyZoneData = NULL
    /\ zoneColors = NULL
    /\ normalizerIn = NULL
    /\ normalizerOut = NULL

\* The date selector as constructed
DateSelectorConstructed ==
    /\ dateFilter = "all"
    /\ customDateFrom = NoDate
    /\ customDateTo = NoDate

\* The components that a specification leaves out stay as constructed
\* No statement has run on the database yet
NoRequest == [op |-> "none", who |-> "nobody", rows |-> <<>>, denied |-> FALSE]

RolesIdle == userRoles = {} /\ lastRequest = NoRequest

\* CHECK (waiting_time IN (...)) as created with the table
OldWaitingTimes == {"less_than_5", "5_to_15", "15_to_30", "more_than_30"}

CheckOf(allowed) == [on |-> TRUE, allowed |-> allowed]

\* The table carries no constraint of that name
NoCheck == [on |-> FALSE, allowed |-> {}]

NoMigration == [script |-> "none", pc |-> 0, failed |-> FALSE, before |-> <<>>]

MigrationIdle ==
    /\ waitingColumn = <<>>
    /\ waitingCheck = CheckOf(OldWaitingTimes)
    /\ migration = NoMigration

\* session?.user ?? null
NoUser == "none"

\* useState<User | null>(null), useState(true), on the route /dashboard with
\* the auth effect of the first render still to run
DashboardConstructed ==
    [user |-> NoUser, isLoading |-> TRUE, route |-> "/dashboard", effectDue |-> TRUE]

NoListener == [subscribed |-> FALSE, isLoading |-> TRUE, initial |-> FALSE]

DashboardIdle ==
    /\ authSession = NoUser
    /\ dashboard = DashboardConstructed
    /\ listener = NoListener
    /\ sessionChecks = <<>>

SysIdle == DateSelectorConstructed /\ RolesIdle /\ MigrationIdle /\ DashboardIdle

FormConstructed ==
    /\ isSubmitting = FALSE
    /\ isSubmitted = FALSE
    /\ insertReq = <<>>
    /\ created = 0

-----------------------------------------------------------------------------
(* SpecCharts: SurveyCharts evaluates its aggregations over filteredSurveys *)

\* One score of each band (the spec's example scores)
BandSamples == {3, 8, 10}

AllScores == 0..10

\* The form's default ratings
DefaultRatings == <<2, 2, 3, 3, 3, 3, 3>>

\* Creation instants: December 2024, two in January 2025, the first hour of
\* March 2025 (UTC), April 2025 and December 2025
CreatedSamples ==
    {At(11, 360), At(12, 100), At(12, 500), At(14, 1), At(15, 360), At(23, 360)}

\* Browser time zones: west of UTC, UTC, and east of UTC
TzOffsets == {-5, 0, 2}

\* Responses created an hour apart in mid-January 2025, with the given scores
ScoreList(scores) ==
    [i \in 1..Len(scores) |->
        SurveyResponse(i, scores[i], At(12, 200 + i), NullText, DefaultRatings)]

RECURSIVE Ascending(_)
Ascending(S) ==
    IF S = {} THEN <<>>
    ELSE LET m == CHOOSE x \in S : \A y \in S : x <= y
         IN  <<m>> \o Ascending(S \ {m})

\* Responses at distinct instants, in the order the fetch returns them
\* (.order('created_at', { ascending: true }))
DatedList(instants, scores) ==
    LET at == Ascending(instants)
    IN  [i \in 1..Len(at) |->
            SurveyResponse(i, scores[i], at[i], NullText, DefaultRatings)]

\* Answers that differ in ratings and referral source: every rating at its
\* minimum; every rating at its maximum; the form's defaults; two ratings
\* missing; communication_clarity at 5, which its CHECK (1..5) admits although
\* the form asks it on 1-3; a source outside the four known ones
RatedSamples ==
    {[ratings |-> <<1, 1, 1, 1, 1, 1, 1>>, source |-> NoText],
     [ratings |-> <<3, 3, 5, 5, 5, 5, 5>>, source |-> "un_amigo"],
     [ratings |-> DefaultRatings, source |-> "redes_sociales"],
     [ratings |-> <<NoRating, 2, 4, NoRating, 3, 5, 1>>, source |-> NoText],
     [ratings |-> <<3, 5, 4, 4, 4, 4, 4>>, source |-> "un_amigo"],
     [ratings |-> <<2, 3, 5, 4, 5, 4, 5>>, source |-> "Google"]}

\* Passive responses an hour apart in mid-January 2025, with the given answers
RatedList(answers) ==
    [i \in 1..Len(answers) |->
        [SurveyResponse(i, 8, At(12, 200 + i), NullText, answers[i].ratings)
            EXCEPT !.how_did_you_know_us = answers[i].source]]

ChartInputs ==
    {ScoreList(sc) : sc \in UNION {[1..n -> BandSamples] : n \in 0..MaxScores}}
    \cup {RatedList(an) : an \in UNION {[1..n -> RatedSamples] : n \in 0..MaxRated}}
    \cup {ScoreList(sc) : sc \in UNION {[1..n -> AllScores] : n \in 0..MaxShort}}
    \cup UNION {{DatedList(I, sc) : sc \in [1..Cardinality(I) -> BandSamples]} :
                   I \in {J \in SUBSET CreatedSamples : Cardinality(J) <= MaxMonths}}

InitCharts ==
    /\ StoreEmpty
    /\ panel = "charts"
    /\ mounted = TRUE
    /\ surveys \in ChartInputs
    /\ filteredSurveys = surveys      \* dateFilter 'all'
    /\ isLoading = FALSE
    /\ searchTerm = <<>>
    /\ npsFilter = "all"
    /\ dateFrom = NoDate
    /\ dateTo = NoDate
    /\ sortBy = "newest"
    /\ currentPage = 1
    /\ fetches = <<>>
    /\ toasts = 0
    /\ unhandled = FALSE
    /\ tz \in TzOffsets
    /\ ChartsNotRendered
    /\ formData = NULL
    /\ FormConstructed
    /\ SysIdle

\* The component body below the isLoading guard: npsData, npsTimeData
RenderCharts ==
    /\ panel = "charts"
    /\ ~isLoading
    /\ ~rendered
    /\ rendered' = TRUE
    /\ npsData' = calculateNPS(filteredSurveys)
    /\ npsTimeData' = ComputeNpsTimeData(filteredSurveys)
    /\ averages' = calculateAverages(filteredSurveys)
    /\ barChartData' = ComputeBarChartData(averages')
    /\ averageSatisfaction' = ComputeAverageSatisfaction(averages')
    /\ averageSatisfactionPlain' = ComputeAverageSatisfactionPlain(averages')
    /\ referralSourceData' = ComputeReferralSourceData(filteredSurveys)
    /\ UNCHANGED <<storeVars, panelVars, tz, bodyZoneData, zoneColors, normalizerIn,
                   normalizerOut, formVars, sysVars>>

NextCharts == RenderCharts

SpecCharts == InitCharts /\ [][NextCharts]_vars

-----------------------------------------------------------------------------
(* Aggregation Engine: TreatmentAnalytics.bodyZoneData and the intensity tiers *)

\* The columns TreatmentAnalytics selects from survey_responses
TreatmentRow(id, body_area, other_body_area) ==
    [id |-> id, appointment_type |-> "presencial", treatment_type |-> "fisioterapia",
     body_area |-> body_area, other_body_area |-> other_body_area,
     created_at |-> At(12, 200 + id)]

getBodyAreaLabel(bodyArea) ==
    IF bodyArea = "rodilla" THEN "Rodilla"
    ELSE IF bodyArea = "hombro" THEN "Hombro"
    ELSE IF bodyArea = "pie" THEN "Pie"
    ELSE IF bodyArea = "mano" THEN "Mano"
    ELSE IF bodyArea = "codo" THEN "Codo"
    ELSE IF bodyArea = "columna_cervical" THEN "Columna Cervical"
    ELSE IF bodyArea = "columna_dorsal" THEN "Columna Dorsal"
    ELSE IF bodyArea = "columna_lumbar" THEN "Columna Lumbar"
    ELSE IF bodyArea = "otra" THEN "Otra zona"
    ELSE bodyArea

\* survey.body_area === 'otra' && survey.other_body_area
\*     ? survey.other_body_area : survey.body_area
EffectiveZone(survey) ==
    IF survey.body_area = "otra" /\ survey.other_body_area # NoText
    THEN survey.other_body_area
    ELSE survey.body_area

\* "acc[zone] = {...}" on the object literal {}: the assignment creates or
\* replaces the own property zone, except for the key "__proto__", where it
\* calls the inherited setter, replaces the prototype of acc and creates no
\* own property, so Object.values and Object.entries never list that key.
IsOwnKey(zone) == zone # "__proto__"

\* The reduce of bodyZoneData: per own key, in first-seen order, its count.
\* (Keys that are canonical array indices would be listed first; the zones of
\* the model are not numerals.)
ZoneCounts(list) ==
    LET zones == [i \in 1..Len(list) |-> EffectiveZone(list[i])]
    IN  CountByKey(SelectSeq(zones, IsOwnKey), <<>>)

\* .sort((a, b) => b.count - a.count)
SortZones(entries) ==
    SortBy(entries, [i \in 1..Len(entries) |->
                        [j \in 1..Len(entries) |-> entries[j].count - entries[i].count < 0]])

\* bodyZoneData: the entries of counts, each with its share of total, sorted
ComputeBodyZoneData(list) ==
    LET counts == ZoneCounts(list)
        total  == SumSeq([i \in 1..Len(counts) |-> counts[i].count])
    IN  SortZones([i \in 1..Len(counts) |->
                      [zone       |-> counts[i].key,
                       count      |-> counts[i].count,
                       label      |-> getBodyAreaLabel(counts[i].key),
                       percentage |-> MathRound(counts[i].count * 100, total)]])

\* bodyZoneData.find(item => item.zone === zone)?.count || 0
getZoneCount(data, zone) ==
    LET hit == {i \in 1..Len(data) : data[i].zone = zone}
    IN  IF hit = {} THEN 0
        ELSE data[CHOOSE i \in hit : \A j \in hit : i <= j].count

\* getZoneColor with "count <= 10" read as "count < 10"
getZoneColorBelowTen(count) ==
    IF count = 0 THEN "rgba(148, 163, 184, 0.3)"
    ELSE IF count <= 2 THEN "rgba(253, 224, 71, 0.7)"
    ELSE IF count <= 5 THEN "rgba(251, 146, 60, 0.8)"
    ELSE IF count < 10 THEN "rgba(248, 113, 113, 0.9)"
    ELSE "rgba(239, 68, 68, 1)"

\* HumanBodyDiagram.getZoneColor(count), alpha = 1
getZoneColor(count) ==
    IF count = 0 THEN "rgba(148, 163, 184, 0.3)"
    ELSE IF count <= 2 THEN "rgba(253, 224, 71, 0.7)"
    ELSE IF count <= 5 THEN "rgba(251, 146, 60, 0.8)"
    ELSE IF count <= 10 THEN "rgba(248, 113, 113, 0.9)"
    ELSE "rgba(239, 68, 68, 1)"

\* The backgroundColor of a zone detail card
CardColor(count) ==
    IF count = 0 THEN "#f8fafc"
    ELSE IF count <= 2 THEN "#fef3c7"
    ELSE IF count <= 5 THEN "#fed7aa"
    ELSE IF count <= 10 THEN "#fca5a5"
    ELSE "#dc2626"

\* The zones drawn on the body diagram
DiagramZones ==
    {"columna_cervical", "hombro", "columna_dorsal", "codo", "columna_lumbar",
     "mano", "rodilla"}

-----------------------------------------------------------------------------
(* SpecTreatment: TreatmentAnalytics evaluates the body-zone tally *)

\* Answers to "zona del cuerpo tratada": two listed zones, 'otra' with the
\* free text "Tobillo", 'otra' with no text, 'otra' with the text "__proto__"
ZoneSamples ==
    {[body_area |-> "rodilla", other_body_area |-> NoText],
     [body_area |-> "hombro",  other_body_area |-> NoText],
     [body_area |-> "otra",    other_body_area |-> "Tobillo"],
     [body_area |-> "otra",    other_body_area |-> NoText],
     [body_area |-> "otra",    other_body_area |-> "__proto__"]}

ZoneList(answers) ==
    [i \in 1..Len(answers) |->
        TreatmentRow(i, answers[i].body_area, answers[i].other_body_area)]

\* k responses for the knee followed by j for 'otra' / "Tobillo"
CrowdList(k, j) ==
    [i \in 1..(k + j) |->
        IF i <= k THEN TreatmentRow(i, "rodilla", NoText)
        ELSE TreatmentRow(i, "otra", "Tobillo")]

TreatmentInputs ==
    {ZoneList(an) : an \in UNION {[1..n -> ZoneSamples] : n \in 0..MaxZoned}}
    \cup {CrowdList(k, j) : k \in 0..MaxCrowd, j \in 0..MaxZoned}

InitTreatment ==
    /\ StoreEmpty
    /\ panel = "treatment"
    /\ mounted = TRUE
    /\ surveys \in TreatmentInputs
    /\ filteredSurveys = surveys      \* dateFilter 'all'
    /\ isLoading = FALSE
    /\ searchTerm = <<>>
    /\ npsFilter = "all"
    /\ dateFrom = NoDate
    /\ dateTo = NoDate
    /\ sortBy = "newest"
    /\ currentPage = 1
    /\ fetches = <<>>
    /\ toasts = 0
    /\ unhandled = FALSE
    /\ tz = 0
    /\ ChartsNotRendered
    /\ formData = NULL
    /\ FormConstructed
    /\ SysIdle

\* The component body below the isLoading guard: bodyZoneData, the colours of
\* the diagram's zones and of the zone detail cards
RenderTreatmentAnalytics ==
    /\ panel = "treatment"
    /\ ~isLoading
    /\ ~rendered
    /\ rendered' = TRUE
    /\ bodyZoneData' = ComputeBodyZoneData(filteredSurveys)
    /\ zoneColors' =
           [diagram |-> [z \in DiagramZones |-> getZoneColor(getZoneCount(bodyZoneData', z))],
            cards   |-> [i \in 1..Len(bodyZoneData') |-> CardColor(bodyZoneData'[i].count)]]
    /\ UNCHANGED <<storeVars, panelVars, tz, npsData, npsTimeData, averages,
                   barChartData, averageSatisfaction, averageSatisfactionPlain,
                   referralSourceData, normalizerIn, normalizerOut, formVars, sysVars>>

NextTreatment == RenderTreatmentAnalytics

SpecTreatment == InitTreatment /\ [][NextTreatment]_vars

-----------------------------------------------------------------------------
(* SpecNormalizer: the rating normalizers applied to sample ratings *)

Normalizers == {"normalizeWebsiteRating", "normalizeCommunicationRating",
                "normalizeOtherRatings"}

\* The source scale of each normalizer: 1-3, 1-3 and 1-5
NormalizerMax(fn) == IF fn = "normalizeOtherRatings" THEN 5 ELSE 3

Normalize(fn, rating) ==
    IF fn = "normalizeWebsiteRating" THEN normalizeWebsiteRating(rating)
    ELSE IF fn = "normalizeCommunicationRating" THEN normalizeCommunicationRating(rating)
    ELSE normalizeOtherRatings(rating)

\* The bar of barChartData for an average on the scale of fn:
\* Math.round(((Math.max(1, Math.min(max, average || 1)) - 1) / (max - 1) * 9 + 1) * 100) / 100
NormalizedBar(fn, average) ==
    RoundHundredths(Rescale(IF average[1] = 0 THEN <<1, 1>> ELSE average,
                            NormalizerMax(fn)))

\* No normalizer has been called yet
NotNormalized == [once |-> NaN, twice |-> NaN, bar |-> NaN]

\* Ratings and averages in steps of a quarter, from -1 to MaxSample
SampleRatings == {Frac(k, 4) : k \in (-4)..(4 * MaxSample)}

InitNormalizer ==
    /\ StoreEmpty
    /\ panel = "charts"
    /\ PanelConstructed
    /\ tz = 0
    /\ rendered = FALSE
    /\ npsData = NULL
    /\ npsTimeData = NULL
    /\ averages = NULL
    /\ barChartData = NULL
    /\ averageSatisfaction = NULL
    /\ averageSatisfactionPlain = NULL
    /\ referralSourceData = NULL
    /\ bodyZoneData = NULL
    /\ zoneColors = NULL
    /\ normalizerIn \in [fn : Normalizers, rating : SampleRatings]
    /\ normalizerOut = NotNormalized
    /\ formData = NULL
    /\ FormConstructed
    /\ SysIdle

\* One call of a normalizer, a second call on its result, and the bar drawn
\* for the same value
ApplyNormalizer ==
    /\ normalizerOut = NotNormalized
    /\ normalizerOut' =
           [once  |-> Normalize(normalizerIn.fn, normalizerIn.rating),
            twice |-> Normalize(normalizerIn.fn,
                                Normalize(normalizerIn.fn, normalizerIn.rating)),
            bar   |-> NormalizedBar(normalizerIn.fn, normalizerIn.rating)]
    /\ UNCHANGED <<storeVars, panelVars, tz, rendered, npsData, npsTimeData, averages,
                   barChartData, averageSatisfaction, averageSatisfactionPlain,
                   referralSourceData, bodyZoneData, zoneColors, normalizerIn,
                   formVars, sysVars>>

NextNormalizer == ApplyNormalizer

SpecNormalizer == InitNormalizer /\ [][NextNormalizer]_vars

-----------------------------------------------------------------------------
(* Filter/Sort Pipeline: SurveyTable.filterSurveys and                       *)
(* CommentsSection.filterAndSortSurveys                                      *)

\* survey.additional_comments?.toLowerCase().includes(term.toLowerCase())
\*   || survey.id.toLowerCase().includes(term.toLowerCase())
MatchesSearch(survey, term) ==
    \/ /\ survey.additional_comments # NullText
       /\ includes(toLowerCase(survey.additional_comments), toLowerCase(term))
    \/ includes(toLowerCase(survey.id), toLowerCase(term))

\* if (searchTerm) { filtered = filtered.filter(...) }: '' is falsy
FilterBySearch(list, term) ==
    IF term # <<>>
    THEN SelectSeq(list, LAMBDA survey : MatchesSearch(survey, term))
    ELSE list

\* if (npsFilter !== 'all') { ... }
FilterByNps(list, filter) ==
    IF filter # "all"
    THEN SelectSeq(list, LAMBDA survey : PassesNpsFilter(filter, survey))
    ELSE list

\* if (dateFrom) { filtered = filtered.filter(s => new Date(s.created_at) >= dateFrom) }
FilterByDateFrom(list, from) ==
    IF from # NoDate
    THEN SelectSeq(list, LAMBDA survey : survey.created_at >= from)
    ELSE list

\* if (dateTo) { filtered = filtered.filter(s => new Date(s.created_at) <= dateTo) }
FilterByDateTo(list, to) ==
    IF to # NoDate
    THEN SelectSeq(list, LAMBDA survey : survey.created_at <= to)
    ELSE list

\* SurveyTable.filterSurveys, without its two setState calls
filterSurveys(list, term, filter, from, to) ==
    FilterByDateTo(FilterByDateFrom(FilterByNps(FilterBySearch(list, term), filter), from), to)

\* CommentsSection.calculateAverageSatisfaction as the fraction <<sum, count>>
\* of the ratings that are neither null nor undefined
calculateAverageSatisfaction(survey) ==
    LET ratings == SelectSeq(<<survey.website_design_rating,
                               survey.communication_clarity,
                               survey.reception_friendliness,
                               survey.clinic_environment,
                               survey.doctor_listening,
                               survey.explanation_clarity,
                               survey.consultation_time>>,
                             LAMBDA rating : rating # NoRating)
    IN  <<SumSeq(ratings), Len(ratings)>>

\* x - y < 0 for two such fractions (false when either is 0/0, i.e. NaN)
AverageLess(x, y) == x[2] > 0 /\ y[2] > 0 /\ x[1] * y[2] < y[1] * x[2]

\* The comparator of filterAndSortSurveys returns a negative number
CompareBefore(key, a, b) ==
    IF key = "oldest" THEN a.created_at < b.created_at
    ELSE IF key = "highest_nps" THEN b.nps_score < a.nps_score
    ELSE IF key = "lowest_nps" THEN a.nps_score < b.nps_score
    ELSE IF key = "highest_satisfaction"
         THEN AverageLess(calculateAverageSatisfaction(b), calculateAverageSatisfaction(a))
    ELSE IF key = "lowest_satisfaction"
         THEN AverageLess(calculateAverageSatisfaction(a), calculateAverageSatisfaction(b))
    ELSE b.created_at < a.created_at

\* CommentsSection.filterAndSortSurveys, without its two setState calls
filterAndSortSurveys(list, term, filter, key) ==
    LET filtered == FilterByNps(FilterBySearch(list, term), filter)
    IN  SortBy(filtered,
               [i \in 1..Len(filtered) |->
                   [j \in 1..Len(filtered) |->
                       CompareBefore(key, filtered[i], filtered[j])]])

\* The panels that browse comments: CommentsSection, and the CommentsSection
\* that src/src/components/SurveyForm.tsx carries ("comments_v1")
CommentPanels == {"comments", "comments_v1"}

\* comments_v1 searches the comments only:
\* survey.additional_comments?.toLowerCase().includes(searchTerm.toLowerCase())
MatchesSearchV1(survey, term) ==
    /\ survey.additional_comments # NullText
    /\ includes(toLowerCase(survey.additional_comments), toLowerCase(term))

FilterBySearchV1(list, term) ==
    IF term # <<>>
    THEN SelectSeq(list, LAMBDA survey : MatchesSearchV1(survey, term))
    ELSE list

\* comments_v1 averages nine columns, three of which (booking_ease,
\* wait_time_satisfaction, treatment_trust) the store no longer has: the sum
\* takes in undefined and is NaN
calculateAverageSatisfactionV1(survey) == <<0, 0>>

CompareBeforeV1(key, a, b) ==
    IF key = "oldest" THEN a.created_at < b.created_at
    ELSE IF key = "highest_nps" THEN b.nps_score < a.nps_score
    ELSE IF key = "lowest_nps" THEN a.nps_score < b.nps_score
    ELSE IF key = "highest_satisfaction"
         THEN AverageLess(calculateAverageSatisfactionV1(b), calculateAverageSatisfactionV1(a))
    ELSE IF key = "lowest_satisfaction"
         THEN AverageLess(calculateAverageSatisfactionV1(a), calculateAverageSatisfactionV1(b))
    ELSE b.created_at < a.created_at

\* filterAndSortSurveys of comments_v1, without its two setState calls.
\* "let filtered = surveys" aliases the held array and filtered.sort(...)
\* sorts in place: with no search term and no NPS band no filter() has made
\* a copy, and the held array itself is reordered.
filterAndSortSurveysV1(list, term, filter, key) ==
    LET filtered == FilterByNps(FilterBySearchV1(list, term), filter)
        sorted   == SortBy(filtered,
                           [i \in 1..Len(filtered) |->
                               [j \in 1..Len(filtered) |->
                                   CompareBeforeV1(key, filtered[i], filtered[j])]])
    IN  [displayed |-> sorted,
         held      |-> IF term = <<>> /\ filter = "all" THEN sorted ELSE list]

\* Mutant of FilterSource: the pipeline narrows what is already displayed
FilterSourceDisplayed(held, displayed) == displayed

\* "let filtered = surveys": the pipeline starts from the held collection
FilterSource(held, displayed) == held

\* The effect on [surveys, searchTerm, npsFilter, ...] of the mounted panel:
\* what it passes to setFilteredSurveys
FilterEffect(held, displayed, term, filter, from, to, key) ==
    IF panel = "comments"
    THEN filterAndSortSurveys(FilterSource(held, displayed), term, filter, key)
    ELSE IF panel = "comments_v1"
    THEN filterAndSortSurveysV1(FilterSource(held, displayed), term, filter, key).displayed
    ELSE filterSurveys(FilterSource(held, displayed), term, filter, from, to)

\* The held array once that effect has run
HeldAfterEffect(held, term, filter, key) ==
    IF panel = "comments_v1"
    THEN filterAndSortSurveysV1(held, term, filter, key).held
    ELSE held

\* The page is left where it was
PageAfterEffectKept(page) == page

\* Either pipeline ends with setCurrentPage(1)
PageAfterEffect(page) == 1

-----------------------------------------------------------------------------
(* Response Store *)

MaxFetches == 2    \* fetchSurveys calls of one mounted panel

\* What a patient may submit: a promoter commenting "Bien", or a detractor
\* who leaves no comment
NewSurveys ==
    {[nps_score |-> 10, additional_comments |-> <<66, 105, 101, 110>>,
      ratings |-> <<3, 3, 5, 5, 5, 5, 5>>],
     [nps_score |-> 3, additional_comments |-> NullText,
      ratings |-> <<1, 1, 2, 2, 1, 2, 1>>]}

\* id DEFAULT gen_random_uuid(): the n-th row's id, "b1", "c2", ...
RowId(n) == <<97 + n, 48 + n>>

\* created_at DEFAULT now(): the n-th row is created on day 4n of January 2025
RowInstant(n) == At(12, 100 * n)

InsertRow(rows, new) ==
    Append(rows, SurveyResponse(RowId(Len(rows) + 1), new.nps_score,
                                RowInstant(Len(rows) + 1),
                                new.additional_comments, new.ratings))

RECURSIVE StoresOfLength(_)
StoresOfLength(n) ==
    IF n = 0 THEN {<<>>}
    ELSE {InsertRow(rows, new) : rows \in StoresOfLength(n - 1), new \in NewSurveys}

HasComment(survey) ==
    survey.additional_comments # NullText /\ survey.additional_comments # <<>>

\* The select each panel's fetchSurveys sends: both order by created_at
\* descending; CommentsSection keeps the rows with a non-empty comment.
FetchQuery(rows) ==
    IF panel \in CommentPanels
    THEN Reverse(SelectSeq(rows, HasComment))
    ELSE Reverse(rows)

-----------------------------------------------------------------------------
(* SpecPanel: a SurveyTable or CommentsSection panel and the Response Store *)

\* The search box: empty, or "B"
SearchTerms == {<<>>, <<66>>}

\* The sort select: the default, an NPS order and a satisfaction order
SortChoices == {"newest", "lowest_nps", "highest_satisfaction"}

NpsFilters == {"all"} \cup NpsBandOptions

\* The calendar's choices: the day the second row is created
DateChoices == {NoDate, RowInstant(2)}

InitPanel ==
    /\ store \in UNION {StoresOfLength(n) : n \in {0, 1}}
    /\ pendingNotifs = 0
    /\ panel \in {"table", "comments"}
    /\ PanelConstructed
    /\ tz = 0
    /\ ChartsNotRendered
    /\ formData = NULL
    /\ FormConstructed
    /\ SysIdle

\* fetchSurveys up to its await: the select is sent.  (Of the calls that
\* have returned, only the latest one's answer is kept on record.)
SendFetch ==
    fetches' = Append([k \in 1..Len(fetches) |->
                          IF fetches[k].status = "done"
                          THEN [fetches[k] EXCEPT !.data = <<>>]
                          ELSE fetches[k]],
                      [status |-> "sent", error |-> FALSE, data |-> <<>>])

\* The mount effect: fetchSurveys() and the channel subscription
Mount ==
    /\ ~mounted
    /\ fetches = <<>>
    /\ mounted' = TRUE
    /\ SendFetch
    /\ UNCHANGED <<storeVars, panel, surveys, filteredSurveys, isLoading, searchTerm,
                   npsFilter, dateFrom, dateTo, sortBy, currentPage, toasts, unhandled,
                   chartVars, sysVars, formVars>>

\* The effect's cleanup, supabase.removeChannel(channel), as the component is
\* unmounted and React discards its state
Unmount ==
    /\ mounted
    /\ mounted' = FALSE
    /\ pendingNotifs' = 0
    /\ surveys' = <<>>
    /\ filteredSurveys' = <<>>
    /\ isLoading' = TRUE
    /\ searchTerm' = <<>>
    /\ npsFilter' = "all"
    /\ dateFrom' = NoDate
    /\ dateTo' = NoDate
    /\ sortBy' = "newest"
    /\ currentPage' = 1
    /\ UNCHANGED <<store, panel, fetches, toasts, unhandled, chartVars, sysVars, formVars>>

\* A patient's insert commits while the panel is subscribed, and realtime
\* queues an INSERT notification for it.  (Inserts before the mount are the
\* rows of the initial store; the bound stops the inserts whose notification
\* the panel could not answer with one of its MaxFetches calls.)
StoreInsert(new) ==
    /\ mounted
    /\ Len(fetches) + pendingNotifs < MaxFetches
    /\ store' = InsertRow(store, new)
    /\ pendingNotifs' = pendingNotifs + 1
    /\ UNCHANGED <<panelVars, chartVars, sysVars, formVars>>

\* The store answers a select with the rows it holds now, or with an error
\* (and then with data null, which "data || []" reads as [])
StoreAnswer(k, fails) ==
    /\ fetches[k].status = "sent"
    /\ fetches' = [fetches EXCEPT ![k] =
                      [status |-> "answered", error |-> fails,
                       data |-> IF fails THEN <<>> ELSE FetchQuery(store)]]
    /\ UNCHANGED <<storeVars, panel, mounted, surveys, filteredSurveys, isLoading,
                   searchTerm, npsFilter, dateFrom, dateTo, sortBy, currentPage,
                   toasts, unhandled, chartVars, sysVars, formVars>>

\* Mutant of SurveysAfterFetch: setSurveys(data || []) runs before the error
\* is looked at
SurveysAfterFetchIgnoringError(held, answer) ==
    IF answer.error THEN <<>> ELSE answer.data

\* "if (error) throw error; setSurveys(data || [])": the held collection once
\* the awaited select has resolved
SurveysAfterFetch(held, answer) ==
    IF answer.error THEN held ELSE answer.data

\* fetchSurveys after its await, in a mounted panel, followed by the filter
\* effect that a new surveys array triggers
FetchReturn(k) ==
    /\ mounted
    /\ fetches[k].status = "answered"
    /\ fetches' = [fetches EXCEPT ![k].status = "done"]
    /\ surveys' =
           IF fetches[k].error THEN SurveysAfterFetch(surveys, fetches[k])
           ELSE HeldAfterEffect(SurveysAfterFetch(surveys, fetches[k]),
                                searchTerm, npsFilter, sortBy)
    /\ toasts' = IF fetches[k].error THEN toasts + 1 ELSE toasts
    /\ isLoading' = FALSE
    /\ filteredSurveys' =
           IF fetches[k].error THEN filteredSurveys
           ELSE FilterEffect(SurveysAfterFetch(surveys, fetches[k]), filteredSurveys,
                             searchTerm, npsFilter, dateFrom, dateTo, sortBy)
    /\ currentPage' = IF fetches[k].error THEN currentPage ELSE PageAfterEffect(currentPage)
    /\ UNCHANGED <<storeVars, panel, mounted, searchTerm, npsFilter, dateFrom, dateTo,
                   sortBy, unhandled, chartVars, sysVars, formVars>>

\* The same continuation after the panel was unmounted: React drops the
\* setState calls of an unmounted component
FetchReturnUnmounted(k) ==
    /\ ~mounted
    /\ fetches[k].status = "answered"
    /\ fetches' = [fetches EXCEPT ![k].status = "done"]
    /\ toasts' = IF fetches[k].error THEN toasts + 1 ELSE toasts
    /\ UNCHANGED <<storeVars, panel, mounted, surveys, filteredSurveys, isLoading,
                   searchTerm, npsFilter, dateFrom, dateTo, sortBy, currentPage,
                   unhandled, chartVars, sysVars, formVars>>

\* Mutant of HandleInsert: the panel prepends the newest row instead of
\* fetching the collection again
HandleInsertPatching ==
    /\ surveys' = <<store[Len(store)]>> \o surveys
    /\ filteredSurveys' = FilterEffect(surveys', filteredSurveys, searchTerm,
                                       npsFilter, dateFrom, dateTo, sortBy)
    /\ UNCHANGED <<fetches, isLoading, currentPage>>

\* The channel's callback: () => { fetchSurveys(); }
HandleInsert ==
    /\ SendFetch
    /\ UNCHANGED <<surveys, filteredSurveys, isLoading, currentPage>>

\* Realtime delivers one INSERT notification to the subscribed panel
OnInsertNotification ==
    /\ mounted
    /\ pendingNotifs > 0
    /\ pendingNotifs' = pendingNotifs - 1
    /\ HandleInsert
    /\ UNCHANGED <<store, panel, mounted, searchTerm, npsFilter, dateFrom, dateTo,
                   sortBy, toasts, unhandled, chartVars, sysVars, formVars>>

\* The filter controls exist once isLoading is false
ControlsShown == mounted /\ ~isLoading

\* A setState of one filter control followed by the filter effect it triggers
ApplyFilters(term, filter, from, to, key) ==
    /\ searchTerm' = term
    /\ npsFilter' = filter
    /\ dateFrom' = from
    /\ dateTo' = to
    /\ sortBy' = key
    /\ filteredSurveys' = FilterEffect(surveys, filteredSurveys, term, filter, from, to, key)
    /\ surveys' = HeldAfterEffect(surveys, term, filter, key)
    /\ currentPage' = PageAfterEffect(currentPage)
    /\ UNCHANGED <<storeVars, panel, mounted, isLoading, fetches, toasts,
                   unhandled, chartVars, sysVars, formVars>>

SetSearchTerm(term) ==
    /\ ControlsShown /\ term # searchTerm
    /\ ApplyFilters(term, npsFilter, dateFrom, dateTo, sortBy)

SetNpsFilter(filter) ==
    /\ ControlsShown /\ filter # npsFilter
    /\ ApplyFilters(searchTerm, filter, dateFrom, dateTo, sortBy)

SetDateFrom(from) ==
    /\ ControlsShown /\ panel = "table" /\ from # dateFrom
    /\ ApplyFilters(searchTerm, npsFilter, from, dateTo, sortBy)

SetDateTo(to) ==
    /\ ControlsShown /\ panel = "table" /\ to # dateTo
    /\ ApplyFilters(searchTerm, npsFilter, dateFrom, to, sortBy)

SetSortBy(key) ==
    /\ ControlsShown /\ panel \in CommentPanels /\ key # sortBy
    /\ ApplyFilters(searchTerm, npsFilter, dateFrom, dateTo, key)

NextPanel ==
    \/ Mount
    \/ Unmount
    \/ \E new \in NewSurveys : StoreInsert(new)
    \/ \E k \in 1..Len(fetches), fails \in BOOLEAN : StoreAnswer(k, fails)
    \/ \E k \in 1..Len(fetches) : FetchReturn(k)
    \/ \E k \in 1..Len(fetches) : FetchReturnUnmounted(k)
    \/ OnInsertNotification
    \/ \E term \in SearchTerms : SetSearchTerm(term)
    \/ \E filter \in NpsFilters : SetNpsFilter(filter)
    \/ \E from \in DateChoices : SetDateFrom(from)
    \/ \E to \in DateChoices : SetDateTo(to)
    \/ \E key \in SortChoices : SetSortBy(key)

SpecPanel == InitPanel /\ [][NextPanel]_vars

-----------------------------------------------------------------------------
(* SpecBrowse: one mounted SurveyTable or comments browser over a store of   *)
(* several pages, its single mount fetch, its filter controls and its pager *)

\* const [itemsPerPage] = useState(10) in SurveyTable, useState(6) in the
\* comments browsers
itemsPerPage == IF panel = "table" THEN 10 ELSE 6

\* Math.ceil(filteredSurveys.length / itemsPerPage)
PagesOf(list) == (Len(list) + itemsPerPage - 1) \div itemsPerPage

totalPages == PagesOf(filteredSurveys)

\* The n-th answer of the browsed store: every fourth patient is a detractor,
\* the other even ones are promoters and the odd ones passives scoring 8;
\* odd patients comment "Bien", even ones "ok"
BrowseAnswer(n) ==
    [nps_score |-> IF n % 4 = 0 THEN 3 ELSE IF n % 2 = 0 THEN 10 ELSE 8,
     additional_comments |-> IF n % 2 = 1 THEN <<66, 105, 101, 110>> ELSE <<111, 107>>,
     ratings |-> <<3, 3, 5, 5, 5, 5, 5>>]

RECURSIVE BrowseStore(_)
BrowseStore(n) == IF n = 0 THEN <<>> ELSE InsertRow(BrowseStore(n - 1), BrowseAnswer(n))

\* Stores of no row, of less than a page, of two comment pages and of two
\* table pages
BrowseSizes == {0, 2, 7, MaxBrowse}

BrowseSortChoices == {"newest", "oldest", "highest_nps", "lowest_nps"}

InitBrowse ==
    /\ store \in {BrowseStore(n) : n \in BrowseSizes}
    /\ pendingNotifs = 0
    /\ panel \in {"table"} \cup CommentPanels
    /\ PanelConstructed
    /\ tz = 0
    /\ ChartsNotRendered
    /\ formData = NULL
    /\ FormConstructed
    /\ SysIdle

\* The pager is rendered when totalPages > 1
PagerShown == ControlsShown /\ totalPages > 1

\* "Anterior": setCurrentPage(prev => Math.max(prev - 1, 1)), disabled on
\* the first page
PreviousPage ==
    /\ PagerShown
    /\ currentPage # 1
    /\ currentPage' = IF currentPage - 1 > 1 THEN currentPage - 1 ELSE 1
    /\ UNCHANGED <<storeVars, panel, mounted, surveys, filteredSurveys, isLoading,
                   searchTerm, npsFilter, dateFrom, dateTo, sortBy, fetches, toasts,
                   unhandled, chartVars, sysVars, formVars>>

\* "Siguiente": setCurrentPage(prev => Math.min(prev + 1, totalPages)),
\* disabled on the last page
NextPage ==
    /\ PagerShown
    /\ currentPage # totalPages
    /\ currentPage' = IF currentPage + 1 < totalPages THEN currentPage + 1 ELSE totalPages
    /\ UNCHANGED <<storeVars, panel, mounted, surveys, filteredSurveys, isLoading,
                   searchTerm, npsFilter, dateFrom, dateTo, sortBy, fetches, toasts,
                   unhandled, chartVars, sysVars, formVars>>

NextBrowse ==
    \/ Mount
    \/ \E k \in 1..Len(fetches), fails \in BOOLEAN : StoreAnswer(k, fails)
    \/ \E k \in 1..Len(fetches) : FetchReturn(k)
    \/ \E term \in SearchTerms : SetSearchTerm(term)
    \/ \E filter \in NpsFilters : SetNpsFilter(filter)
    \/ \E from \in DateChoices : SetDateFrom(from)
    \/ \E to \in DateChoices : SetDateTo(to)
    \/ \E key \in BrowseSortChoices : SetSortBy(key)
    \/ PreviousPage
    \/ NextPage

SpecBrowse == InitBrowse /\ [][NextBrowse]_vars

-----------------------------------------------------------------------------
(* Date-range selection: filterSurveysByDate of SurveyCharts and of         *)
(* TreatmentAnalytics, and the date pickers of SurveyTable                  *)

\* "new Date()" while the dashboard is open: 15 January 2025, 00:00 UTC
Now == At(12, 14 * 24)

\* The Date the calendar hands to onSelect for day d of January 2025 (d = 0
\* is the 1st): that day's midnight in the browser's time zone
PickedDay(d) == At(12, 24 * d) - tz

\* date.setHours(0, 0, 0, 0): the start of the date's local day
StartOfDay(date) == ((date + tz) \div 24) * 24 - tz

\* date.setHours(23, 59, 59, 999): the end of the date's local day, which for
\* instants on the hour is its last hour
EndOfDay(date) == StartOfDay(date) + 23

\* The Date a panel compares created_at with, for the picked customDateFrom
CustomFromBound(kind, from) == IF kind = "treatment" THEN StartOfDay(from) ELSE from

\* The Date a panel compares created_at with, for the picked customDateTo
CustomToBound(kind, to) == IF kind = "treatment" THEN EndOfDay(to) ELSE to

\* if (customDateFrom) { filtered = filtered.filter(s => new Date(s.created_at) >= from) }
FilterByCustomFrom(kind, list, from) ==
    IF from # NoDate
    THEN SelectSeq(list, LAMBDA survey : survey.created_at >= CustomFromBound(kind, from))
    ELSE list

\* The upper comparison made strict
FilterByCustomToStrict(kind, list, to) ==
    IF to # NoDate
    THEN SelectSeq(list, LAMBDA survey : survey.created_at < CustomToBound(kind, to))
    ELSE list

\* if (customDateTo) { filtered = filtered.filter(s => new Date(s.created_at) <= to) }
FilterByCustomTo(kind, list, to) ==
    IF to # NoDate
    THEN SelectSeq(list, LAMBDA survey : survey.created_at <= CustomToBound(kind, to))
    ELSE list

\* filtered = surveys.filter(s => new Date(s.created_at) >= now - days)
FilterSince(list, days) ==
    SelectSeq(list, LAMBDA survey : survey.created_at >= Now - days * 24)

\* filterSurveysByDate of the panel of the given kind ("charts" or
\* "treatment"), without its setState call
filterSurveysByDate(kind, list, filter, from, to) ==
    IF filter = "last_7_days" THEN FilterSince(list, 7)
    ELSE IF filter = "last_30_days" THEN FilterSince(list, 30)
    ELSE IF filter = "last_3_months" THEN FilterSince(list, 90)
    ELSE IF filter = "custom"
         THEN FilterByCustomTo(kind, FilterByCustomFrom(kind, list, from), to)
    ELSE list

-----------------------------------------------------------------------------
(* SpecDateRange: a loaded panel and its date selection *)

\* The select's options
DateFilterOptions == {"all", "last_7_days", "last_30_days", "last_3_months", "custom"}

\* The days of January 2025 the calendars offer: the 11th and the 13th
CalendarDays == {10, 12}

\* Creation instants (UTC): 16 December; 10 January 12:00; 11 January 00:00
\* and 15:00; 13 January 00:00, 09:00 and 22:00; 14 January 01:00
DatedInstants ==
    {At(11, 360), At(12, 228), At(12, 240), At(12, 255), At(12, 288), At(12, 297),
     At(12, 310), At(12, 313)}

\* The fetched collection: passive responses, newest first
DatedInputs ==
    {Reverse(DatedList(I, [i \in 1..Cardinality(I) |-> 8])) :
        I \in {J \in SUBSET DatedInstants : Cardinality(J) <= MaxDated}}

InitDateRange ==
    /\ StoreEmpty
    /\ panel \in {"charts", "treatment", "table"}
    /\ mounted = TRUE
    /\ surveys \in DatedInputs
    /\ filteredSurveys = surveys
    /\ isLoading = FALSE
    /\ searchTerm = <<>>
    /\ npsFilter = "all"
    /\ dateFrom = NoDate
    /\ dateTo = NoDate
    /\ sortBy = "newest"
    /\ currentPage = 1
    /\ fetches = <<>>
    /\ toasts = 0
    /\ unhandled = FALSE
    /\ tz \in TzOffsets
    /\ ChartsNotRendered
    /\ formData = NULL
    /\ FormConstructed
    /\ DateSelectorConstructed
    /\ RolesIdle
    /\ MigrationIdle
    /\ DashboardIdle

\* A setState of the date selector followed by the effect on [surveys,
\* dateFilter, customDateFrom, customDateTo], which runs filterSurveysByDate
ApplyDateSelection(filter, from, to) ==
    /\ panel \in {"charts", "treatment"}
    /\ ~isLoading
    /\ dateFilter' = filter
    /\ customDateFrom' = from
    /\ customDateTo' = to
    /\ filteredSurveys' = filterSurveysByDate(panel, surveys, filter, from, to)
    /\ UNCHANGED <<storeVars, panel, mounted, surveys, isLoading, searchTerm, npsFilter,
                   dateFrom, dateTo, sortBy, currentPage, fetches, toasts, unhandled,
                   chartVars, formVars, dbVars, migVars, dashVars>>

SetDateFilter(filter) ==
    /\ filter # dateFilter
    /\ ApplyDateSelection(filter, customDateFrom, customDateTo)

\* The calendars exist while dateFilter is 'custom'; clicking the selected
\* day again hands undefined to onSelect
SetCustomDateFrom(from) ==
    /\ dateFilter = "custom" /\ from # customDateFrom
    /\ ApplyDateSelection(dateFilter, from, customDateTo)

SetCustomDateTo(to) ==
    /\ dateFilter = "custom" /\ to # customDateTo
    /\ ApplyDateSelection(dateFilter, customDateFrom, to)

NextDateRange ==
    \/ \E filter \in DateFilterOptions : SetDateFilter(filter)
    \/ \E d \in CalendarDays : SetCustomDateFrom(PickedDay(d))
    \/ SetCustomDateFrom(NoDate)
    \/ \E d \in CalendarDays : SetCustomDateTo(PickedDay(d))
    \/ SetCustomDateTo(NoDate)
    \/ \E d \in CalendarDays : SetDateFrom(PickedDay(d))
    \/ SetDateFrom(NoDate)
    \/ \E d \in CalendarDays : SetDateTo(PickedDay(d))
    \/ SetDateTo(NoDate)

SpecDateRange == InitDateRange /\ [][NextDateRange]_vars

-----------------------------------------------------------------------------
(* SpecForm: one session of SurveyForm and the Response Store *)

MaxSubmits == 2    \* inserts one form session may issue

\* z.string().min(1), z.number().min(lo).max(hi), z.enum([...])
MinLength(text, n) == Len(text) >= n

InRange(x, lo, hi) == x >= lo /\ x <= hi

WaitingTimes == {"less_than_5", "5_to_15", "15_to_30", "more_than_30"}

\* surveySchema.safeParse(data).success, for the mandatory fields and
\* additional_comments (the other optional strings accept every value)
surveySchema(data) ==
    /\ InRange(data.website_design_rating, 1, 3)
    /\ InRange(data.communication_clarity, 1, 3)
    /\ data.appointment_type \in {"presencial", "telematica"}
    /\ MinLength(data.treatment_type, 1)
    /\ MinLength(data.body_area, 1)
    /\ InRange(data.reception_friendliness, 1, 5)
    /\ data.waiting_time \in WaitingTimes
    /\ InRange(data.clinic_environment, 1, 5)
    /\ InRange(data.doctor_listening, 1, 5)
    /\ InRange(data.explanation_clarity, 1, 5)
    /\ InRange(data.consultation_time, 1, 5)
    /\ InRange(data.nps_score, 0, 10)

\* useForm's defaultValues
defaultValues ==
    [website_design_rating  |-> 2,
     communication_clarity  |-> 2,
     appointment_type       |-> "presencial",
     treatment_type         |-> <<>>,
     other_treatment        |-> <<>>,
     body_area              |-> <<>>,
     other_body_area        |-> <<>>,
     reception_friendliness |-> 3,
     waiting_time           |-> "less_than_5",
     clinic_environment     |-> 3,
     doctor_listening       |-> 3,
     explanation_clarity    |-> 3,
     consultation_time      |-> 3,
     nps_score              |-> 5,
     additional_comments    |-> <<>>,
     how_did_you_know_us    |-> "",
     referral_details       |-> <<>>]

\* "data.additional_comments || null": '' is falsy
OrNull(text) == IF text = <<>> THEN NullText ELSE text

\* The row the insert of onSubmit carries.  (how_did_you_know_us is '' or a
\* select item, and "data.how_did_you_know_us || null" turns '' into null,
\* which NoText stands for.)
InsertPayload(data) ==
    [nps_score           |-> data.nps_score,
     additional_comments |-> OrNull(data.additional_comments),
     appointment_type    |-> data.appointment_type,
     treatment_type      |-> data.treatment_type,
     other_treatment     |-> OrNull(data.other_treatment),
     body_area           |-> data.body_area,
     other_body_area     |-> OrNull(data.other_body_area),
     waiting_time        |-> data.waiting_time,
     how_did_you_know_us |-> IF data.how_did_you_know_us = "" THEN NoText
                             ELSE data.how_did_you_know_us,
     referral_details    |-> OrNull(data.referral_details),
     ratings             |-> <<data.website_design_rating, data.communication_clarity,
                               data.reception_friendliness, data.clinic_environment,
                               data.doctor_listening, data.explanation_clarity,
                               data.consultation_time>>]

\* The select items "fisioterapia" and "rodilla" (by their first letter), the
\* slider positions and the textarea contents a patient may enter
TreatmentChoices == {<<102>>}
BodyAreaChoices  == {<<114>>}
SliderChoices    == {0, 5, 10}
CommentChoices   == {<<>>, <<66, 105, 101, 110>>}

InitForm ==
    /\ StoreEmpty
    /\ panel = "form"
    /\ PanelConstructed
    /\ tz = 0
    /\ ChartsNotRendered
    /\ formData = defaultValues
    /\ FormConstructed
    /\ SysIdle

\* "if (isSubmitted) return <thanks card>": the form exists until then
FormShown == ~isSubmitted

\* field.onChange of one control
SetField(data) ==
    /\ FormShown
    /\ data # formData
    /\ formData' = data
    /\ UNCHANGED <<storeVars, panelVars, chartVars, sysVars, isSubmitting, isSubmitted,
                   insertReq, created>>

SetTreatmentType(value) == SetField([formData EXCEPT !.treatment_type = value])

SetBodyArea(value) == SetField([formData EXCEPT !.body_area = value])

SetNpsScore(value) == SetField([formData EXCEPT !.nps_score = value])

SetAdditionalComments(value) == SetField([formData EXCEPT !.additional_comments = value])

\* Mutant of SubmitButtonDisabled: the button stays enabled during an insert
SubmitButtonAlwaysEnabled == FALSE

\* <Button type="submit" disabled={isSubmitting}>
SubmitButtonDisabled == isSubmitting

\* A submit event: form.handleSubmit runs the zod resolver and calls onSubmit
\* only with valid data; onSubmit sets isSubmitting and sends the insert.
\* (React renders the disabled button before the browser handles another
\* event.  A submit of invalid data only shows the field messages.)
Submit ==
    /\ FormShown
    /\ ~SubmitButtonDisabled
    /\ Len(insertReq) < MaxSubmits
    /\ surveySchema(formData)
    /\ isSubmitting' = TRUE
    /\ insertReq' = Append(insertReq,
                           [status |-> "sent", error |-> FALSE, data |-> formData])
    /\ UNCHANGED <<storeVars, panelVars, chartVars, sysVars, formData, isSubmitted, created>>

\* The store answers an insert: the row is committed, or it is rejected with
\* an error and nothing is written
InsertAnswer(k, fails) ==
    /\ insertReq[k].status = "sent"
    /\ insertReq' = [insertReq EXCEPT ![k].status = "answered", ![k].error = fails]
    /\ store' = IF fails THEN store
                ELSE InsertRow(store, InsertPayload(insertReq[k].data))
    /\ created' = IF fails THEN created ELSE created + 1
    /\ UNCHANGED <<pendingNotifs, panelVars, chartVars, sysVars, formData, isSubmitting,
                   isSubmitted>>

\* onSubmit after its await: "if (error) throw error; setIsSubmitted(true)",
\* the catch's destructive toast, and the finally's setIsSubmitting(false)
SubmitReturn(k) ==
    /\ insertReq[k].status = "answered"
    /\ insertReq' = [insertReq EXCEPT ![k].status = "done"]
    /\ isSubmitted' = IF insertReq[k].error THEN isSubmitted ELSE TRUE
    /\ toasts' = IF insertReq[k].error THEN toasts + 1 ELSE toasts
    /\ isSubmitting' = FALSE
    /\ UNCHANGED <<storeVars, panel, mounted, surveys, filteredSurveys, isLoading,
                   searchTerm, npsFilter, dateFrom, dateTo, sortBy, currentPage,
                   fetches, unhandled, chartVars, sysVars, formData, created>>

NextForm ==
    \/ \E value \in TreatmentChoices : SetTreatmentType(value)
    \/ \E value \in BodyAreaChoices : SetBodyArea(value)
    \/ \E value \in SliderChoices : SetNpsScore(value)
    \/ \E value \in CommentChoices : SetAdditionalComments(value)
    \/ Submit
    \/ \E k \in 1..Len(insertReq), fails \in BOOLEAN : InsertAnswer(k, fails)
    \/ \E k \in 1..Len(insertReq) : SubmitReturn(k)

SpecForm == InitForm /\ [][NextForm]_vars

-----------------------------------------------------------------------------
(* SpecFields: the conditional free-text fields of SurveyForm, and the      *)
(* Response Store's column constraints                                       *)

\* <SelectItem value="otro">, <SelectItem value="otra">
Otro == <<111, 116, 114, 111>>
Otra == <<111, 116, 114, 97>>

\* The referral sources for which the form renders referral_details
QualifyingSources == {"clinica_fisioterapia", "un_amigo", "un_conocido"}

\* {form.watch('treatment_type') === 'otro' && <FormField name="other_treatment" />}
OtherTreatmentShown == formData.treatment_type = Otro

\* {form.watch('body_area') === 'otra' && <FormField name="other_body_area" />}
OtherBodyAreaShown == formData.body_area = Otra

ReferralDetailsShown == formData.how_did_you_know_us \in QualifyingSources

\* What a patient may select or type: "fisioterapia" / "rodilla" (by their
\* first letter) or the "other" item, a social-network or a friend referral,
\* a waiting time, and the text "X" in a free-text input
FieldTreatments == {<<102>>, Otro}
FieldBodyAreas  == {<<114>>, Otra}
FieldSources    == {"redes_sociales", "un_amigo"}
FieldTexts      == {<<>>, <<88>>}
FieldWaitingTimes == {"less_than_5", "more_than_30"}

\* The inputs exist only while rendered; useForm keeps the value of an
\* input that is no longer rendered (shouldUnregister is not set)
SetOtherTreatment(value) ==
    OtherTreatmentShown /\ SetField([formData EXCEPT !.other_treatment = value])

SetOtherBodyArea(value) ==
    OtherBodyAreaShown /\ SetField([formData EXCEPT !.other_body_area = value])

SetHowDidYouKnowUs(value) == SetField([formData EXCEPT !.how_did_you_know_us = value])

SetReferralDetails(value) ==
    ReferralDetailsShown /\ SetField([formData EXCEPT !.referral_details = value])

SetWaitingTime(value) == SetField([formData EXCEPT !.waiting_time = value])

\* The CHECK and NOT NULL constraints of survey_responses once every
\* migration has run, on the columns the form writes
StoreWaitingTimes == {"malo", "normal", "bueno"}

StoreConstraints(row) ==
    /\ row.appointment_type # NoText
    /\ row.treatment_type # NullText
    /\ row.body_area # NullText
    /\ InRange(row.ratings[2], 1, 5)
    /\ InRange(row.ratings[3], 1, 5)
    /\ InRange(row.ratings[4], 1, 5)
    /\ InRange(row.ratings[5], 1, 5)
    /\ InRange(row.ratings[6], 1, 5)
    /\ InRange(row.ratings[7], 1, 5)
    /\ InRange(row.nps_score, 0, 10)
    /\ row.waiting_time \in StoreWaitingTimes

InitFields == InitForm

NextFields ==
    \/ \E value \in FieldTreatments : SetTreatmentType(value)
    \/ \E value \in FieldBodyAreas : SetBodyArea(value)
    \/ \E value \in FieldTexts : SetOtherTreatment(value)
    \/ \E value \in FieldTexts : SetOtherBodyArea(value)
    \/ \E value \in FieldSources : SetHowDidYouKnowUs(value)
    \/ \E value \in FieldTexts : SetReferralDetails(value)
    \/ \E value \in FieldWaitingTimes : SetWaitingTime(value)
    \/ (Len(insertReq) < MaxFieldSubmits /\ Submit)
    \/ \E k \in 1..Len(insertReq), fails \in BOOLEAN : InsertAnswer(k, fails)
    \/ \E k \in 1..Len(insertReq) : SubmitReturn(k)

SpecFields == InitFields /\ [][NextFields]_vars

-----------------------------------------------------------------------------
(* SpecRoles: row-level security of survey_responses and user_roles         *)

\* The clients of the database: two registered users (rows of auth.users)
\* and the anonymous role, for which auth.uid() is NULL
Anon == "anon"
Users == {"ana", "bob"}
Clients == Users \cup {Anon}

\* CREATE TYPE public.app_role AS ENUM ('admin', 'doctor', 'patient')
AppRoles == {"admin", "doctor", "patient"}

\* "TO authenticated": the policy applies to signed-in clients only
Authenticated(who) == who # Anon

\* public.has_role(_user_id, _role): SECURITY DEFINER, so it reads user_roles
\* whatever the caller may see
has_role(user_id, role) == <<user_id, role>> \in userRoles

\* "Only authorized medical staff can view survey responses"
StaffCanViewSurveys(who) ==
    Authenticated(who) /\ (has_role(who, "doctor") \/ has_role(who, "admin"))

\* "Anyone can insert survey responses": FOR INSERT WITH CHECK (true), to
\* every role
AnyoneCanInsertSurveys(who) == TRUE

\* WITH CHECK (true) for every signed-in client
AnyUserCanInsertRoles(who) == Authenticated(who)

\* "Admins can insert roles"
AdminsCanInsertRoles(who) == Authenticated(who) /\ has_role(who, "admin")

\* "Admins can update roles" (USING and WITH CHECK are the same test;
\* has_role is STABLE and sees the statement's snapshot)
AdminsCanUpdateRoles(who) == Authenticated(who) /\ has_role(who, "admin")

\* "Admins can delete roles"
AdminsCanDeleteRoles(who) == Authenticated(who) /\ has_role(who, "admin")

Request(op, who, rows, denied) == [op |-> op, who |-> who, rows |-> rows, denied |-> denied]

\* The table is empty, or the service role (which bypasses row-level
\* security) has made ana an admin
InitRoles ==
    /\ store = <<>>
    /\ pendingNotifs = 0
    /\ panel = "database"
    /\ PanelConstructed
    /\ tz = 0
    /\ ChartsNotRendered
    /\ formData = NULL
    /\ FormConstructed
    /\ DateSelectorConstructed
    /\ userRoles \in {{}, {<<"ana", "admin">>}}
    /\ lastRequest = NoRequest
    /\ MigrationIdle
    /\ DashboardIdle

\* select * from survey_responses: the rows the SELECT policy lets through
SelectSurveys(who) ==
    /\ lastRequest' = Request("select_surveys", who,
                              IF StaffCanViewSurveys(who) THEN store ELSE <<>>, FALSE)
    /\ UNCHANGED <<storeVars, panelVars, chartVars, formVars, dateVars, migVars, dashVars, userRoles>>

\* insert into survey_responses
InsertSurvey(who, new) ==
    /\ Len(store) < MaxSurveys
    /\ store' = IF AnyoneCanInsertSurveys(who) THEN InsertRow(store, new) ELSE store
    /\ lastRequest' = Request("insert_survey", who, <<>>, ~AnyoneCanInsertSurveys(who))
    /\ UNCHANGED <<pendingNotifs, panelVars, chartVars, formVars, dateVars, migVars, dashVars, userRoles>>

\* insert into user_roles (user_id, role): a row the policy rejects is an
\* error; a second (user_id, role) is a unique violation
InsertRole(who, user_id, role) ==
    /\ userRoles' = IF AdminsCanInsertRoles(who)
                    THEN userRoles \cup {<<user_id, role>>} ELSE userRoles
    /\ lastRequest' = Request("insert_role", who, <<>>, ~AdminsCanInsertRoles(who))
    /\ UNCHANGED <<storeVars, panelVars, chartVars, formVars, dateVars, migVars, dashVars>>

\* update user_roles set role = role where user_id = ... and role = old: the
\* USING clause hides every row from a client that is no admin
UpdateRole(who, user_id, old, role) ==
    /\ <<user_id, old>> \in userRoles
    /\ <<user_id, role>> \notin userRoles
    /\ userRoles' = IF AdminsCanUpdateRoles(who)
                    THEN (userRoles \ {<<user_id, old>>}) \cup {<<user_id, role>>}
                    ELSE userRoles
    /\ lastRequest' = Request("update_role", who, <<>>, ~AdminsCanUpdateRoles(who))
    /\ UNCHANGED <<storeVars, panelVars, chartVars, formVars, dateVars, migVars, dashVars>>

\* delete from user_roles where user_id = ... and role = ...
DeleteRole(who, user_id, role) ==
    /\ <<user_id, role>> \in userRoles
    /\ userRoles' = IF AdminsCanDeleteRoles(who)
                    THEN userRoles \ {<<user_id, role>>} ELSE userRoles
    /\ lastRequest' = Request("delete_role", who, <<>>, ~AdminsCanDeleteRoles(who))
    /\ UNCHANGED <<storeVars, panelVars, chartVars, formVars, dateVars, migVars, dashVars>>

NextRoles ==
    \/ \E who \in Clients : SelectSurveys(who)
    \/ \E who \in Clients, new \in NewSurveys : InsertSurvey(who, new)
    \/ \E who \in Clients, user_id \in Users, role \in AppRoles :
           InsertRole(who, user_id, role)
    \/ \E who \in Clients, user_id \in Users, old \in AppRoles, role \in AppRoles :
           UpdateRole(who, user_id, old, role)
    \/ \E who \in Clients, user_id \in Users, role \in AppRoles :
           DeleteRole(who, user_id, role)

SpecRoles == InitRoles /\ [][NextRoles]_vars

-----------------------------------------------------------------------------
(* SpecMigration: the scripts that move waiting_time to malo / normal /     *)
(* bueno, run statement by statement against a table of old values          *)

\* SET waiting_time = CASE WHEN ... END
MapWaitingTime(value) ==
    IF value = "less_than_5" THEN "bueno"
    ELSE IF value = "5_to_15" THEN "normal"
    ELSE IF value = "15_to_30" THEN "normal"
    ELSE IF value = "more_than_30" THEN "malo"
    ELSE value

NewWaitingTimes == {"malo", "normal", "bueno"}

\* The statements of each script, in the order the file has them
Scripts ==
    [migration_20250910182824 |-> <<"update", "drop", "add">>,
     part_008                 |-> <<"drop", "update", "add">>,
     part_007                 |-> <<"drop", "add">>]

ScriptNames == DOMAIN Scripts

\* A row satisfies the constraint in force
SatisfiesCheck(check, value) == check.on => value \in check.allowed

AllSatisfy(check, column) ==
    \A i \in 1..Len(column) : SatisfiesCheck(check, column[i])

\* Tables of up to MaxRows rows written under the original constraint
RECURSIVE ColumnsOfLength(_)
ColumnsOfLength(n) ==
    IF n = 0 THEN {<<>>}
    ELSE {Append(column, value) : column \in ColumnsOfLength(n - 1),
                                  value \in OldWaitingTimes}

InitMigration ==
    /\ StoreEmpty
    /\ panel = "database"
    /\ PanelConstructed
    /\ tz = 0
    /\ ChartsNotRendered
    /\ formData = NULL
    /\ FormConstructed
    /\ DateSelectorConstructed
    /\ RolesIdle
    /\ waitingColumn \in UNION {ColumnsOfLength(n) : n \in 0..MaxRows}
    /\ waitingCheck = CheckOf(OldWaitingTimes)
    /\ \E script \in ScriptNames :
           migration = [script |-> script, pc |-> 1, failed |-> FALSE,
                        before |-> waitingColumn]
    /\ DashboardIdle

Running == ~migration.failed /\ migration.pc <= Len(Scripts[migration.script])

Statement == Scripts[migration.script][migration.pc]

\* The statement succeeded: on to the next one
Advance == migration' = [migration EXCEPT !.pc = @ + 1]

\* The statement raised an error: the script stops and its transaction is
\* rolled back
Abort ==
    /\ migration' = [migration EXCEPT !.failed = TRUE]
    /\ waitingColumn' = migration.before
    /\ waitingCheck' = CheckOf(OldWaitingTimes)

\* UPDATE survey_responses SET waiting_time = CASE ... END: a new row that
\* violates the constraint in force is an error
RunUpdate ==
    /\ Running /\ Statement = "update"
    /\ LET updated == [i \in 1..Len(waitingColumn) |-> MapWaitingTime(waitingColumn[i])]
       IN  IF AllSatisfy(waitingCheck, updated)
           THEN waitingColumn' = updated /\ UNCHANGED waitingCheck /\ Advance
           ELSE Abort
    /\ UNCHANGED <<storeVars, panelVars, chartVars, formVars, dateVars, dbVars, dashVars>>

\* ALTER TABLE ... DROP CONSTRAINT survey_responses_waiting_time_check
RunDropConstraint ==
    /\ Running /\ Statement = "drop"
    /\ IF waitingCheck.on
       THEN waitingCheck' = NoCheck /\ UNCHANGED waitingColumn /\ Advance
       ELSE Abort
    /\ UNCHANGED <<storeVars, panelVars, chartVars, formVars, dateVars, dbVars, dashVars>>

\* ALTER TABLE ... ADD CONSTRAINT ... CHECK (waiting_time = ANY (ARRAY[...])):
\* the existing rows are validated against the new constraint
RunAddConstraint ==
    /\ Running /\ Statement = "add"
    /\ IF ~waitingCheck.on /\ AllSatisfy(CheckOf(NewWaitingTimes), waitingColumn)
       THEN waitingCheck' = CheckOf(NewWaitingTimes) /\ UNCHANGED waitingColumn /\ Advance
       ELSE Abort
    /\ UNCHANGED <<storeVars, panelVars, chartVars, formVars, dateVars, dbVars, dashVars>>

NextMigration == RunUpdate \/ RunDropConstraint \/ RunAddConstraint

SpecMigration == InitMigration /\ [][NextMigration]_vars

-----------------------------------------------------------------------------
(* SpecDashboard: the Dashboard page, its auth effect and the auth client    *)

\* The accounts that may hold the browser's session
Accounts == {"doc", "eva"}

\* "if (isLoading) return <spinner>; if (!user) return null;": the header,
\* the tabs and the panels are what the component returns otherwise
PanelsRendered ==
    /\ dashboard.route = "/dashboard"
    /\ ~dashboard.isLoading
    /\ dashboard.user # NoUser

\* The session check navigates whatever it finds missing
SessionCheckNeverNavigates(user) == FALSE

\* getSession().then: if (!session?.user) navigate('/login')
SessionCheckNavigates(user) == user = NoUser

\* The listener: if (!session?.user && !isLoading) navigate('/login'), with
\* the isLoading of the render whose effect subscribed it
ListenerNavigates(isLoadingSeen, user) == user = NoUser /\ ~isLoadingSeen

\* setUser(session?.user ?? null), the navigation if any, and
\* setIsLoading(false), which makes the auth effect due again when it
\* changes isLoading (the effect depends on [navigate, isLoading]).  Leaving
\* /dashboard unmounts the page; React drops the setState calls of an
\* unmounted component.
AfterReport(dash, user, navigates) ==
    IF dash.route # "/dashboard" THEN dash
    ELSE IF navigates
    THEN [user |-> user, isLoading |-> FALSE, route |-> "/login", effectDue |-> FALSE]
    ELSE [user |-> user, isLoading |-> FALSE, route |-> dash.route,
          effectDue |-> dash.effectDue \/ dash.isLoading]

\* The effect's cleanup, subscription.unsubscribe(), runs when the page is
\* unmounted
ListenerAfter(dash, subscription) ==
    IF dash.route # "/dashboard" THEN NoListener ELSE subscription

InitDashboard ==
    /\ StoreEmpty
    /\ panel = "dashboard"
    /\ PanelConstructed
    /\ tz = 0
    /\ ChartsNotRendered
    /\ formData = NULL
    /\ FormConstructed
    /\ DateSelectorConstructed
    /\ RolesIdle
    /\ MigrationIdle
    /\ authSession \in Accounts \cup {NoUser}
    /\ dashboard = DashboardConstructed
    /\ listener = NoListener
    /\ sessionChecks = <<>>

\* The auth effect, at the first render and again after isLoading changed:
\* the previous subscription is removed, a listener is subscribed (the auth
\* client will send it the initial session) and getSession() is called
RunAuthEffect ==
    /\ dashboard.route = "/dashboard"
    /\ dashboard.effectDue
    /\ listener' = [subscribed |-> TRUE, isLoading |-> dashboard.isLoading,
                    initial |-> TRUE]
    /\ sessionChecks' = Append(sessionChecks, [status |-> "sent", user |-> NoUser])
    /\ dashboard' = [dashboard EXCEPT !.effectDue = FALSE]
    /\ UNCHANGED <<storeVars, panelVars, chartVars, formVars, dateVars, dbVars, migVars,
                   authSession>>

\* The subscribed listener is called with the given session's user
ListenerCalled(user, subscription) ==
    /\ dashboard' = AfterReport(dashboard, user,
                                ListenerNavigates(listener.isLoading, user))
    /\ listener' = ListenerAfter(dashboard', subscription)

\* The auth client sends the new listener the session it holds
DeliverInitialSession ==
    /\ listener.subscribed
    /\ listener.initial
    /\ ListenerCalled(authSession, [listener EXCEPT !.initial = FALSE])
    /\ UNCHANGED <<storeVars, panelVars, chartVars, formVars, dateVars, dbVars, migVars,
                   authSession, sessionChecks>>

\* The session changes outside the page (a sign-out or a sign-in in another
\* tab, an expired token) and the auth client notifies the listener
AuthChange(user) ==
    /\ user # authSession
    /\ authSession' = user
    /\ IF listener.subscribed
       THEN ListenerCalled(user, listener)
       ELSE UNCHANGED <<dashboard, listener>>
    /\ UNCHANGED <<storeVars, panelVars, chartVars, formVars, dateVars, dbVars, migVars,
                   sessionChecks>>

\* getSession() reads the session the auth client holds
AnswerSessionCheck(k) ==
    /\ sessionChecks[k].status = "sent"
    /\ sessionChecks' = [sessionChecks EXCEPT ![k] =
                            [status |-> "answered", user |-> authSession]]
    /\ UNCHANGED <<storeVars, panelVars, chartVars, formVars, dateVars, dbVars, migVars,
                   authSession, dashboard, listener>>

\* The then-callback of getSession()
SessionCheckReturn(k) ==
    /\ sessionChecks[k].status = "answered"
    /\ sessionChecks' = [sessionChecks EXCEPT ![k].status = "done"]
    /\ dashboard' = AfterReport(dashboard, sessionChecks[k].user,
                                SessionCheckNavigates(sessionChecks[k].user))
    /\ listener' = ListenerAfter(dashboard', listener)
    /\ UNCHANGED <<storeVars, panelVars, chartVars, formVars, dateVars, dbVars, migVars,
                   authSession>>

\* handleLogout, from the header's button: signOut() ends the session and
\* notifies the listener, then navigate('/login'); when signOut() fails only
\* a toast is shown
HandleLogout(fails) ==
    /\ PanelsRendered
    /\ IF fails
       THEN UNCHANGED <<authSession, dashboard, listener>>
       ELSE /\ authSession' = NoUser
            /\ dashboard' = AfterReport(dashboard, NoUser, TRUE)
            /\ listener' = NoListener
    /\ UNCHANGED <<storeVars, panelVars, chartVars, formVars, dateVars, dbVars, migVars,
                   sessionChecks>>

NextDashboard ==
    \/ RunAuthEffect
    \/ DeliverInitialSession
    \/ \E user \in Accounts \cup {NoUser} : AuthChange(user)
    \/ \E k \in 1..Len(sessionChecks) : AnswerSessionCheck(k)
    \/ \E k \in 1..Len(sessionChecks) : SessionCheckReturn(k)
    \/ \E fails \in BOOLEAN : HandleLogout(fails)

SpecDashboard == InitDashboard /\ [][NextDashboard]_vars

-----------------------------------------------------------------------------
(* Properties of SpecCharts *)

CountWhere(list, P(_)) == Cardinality({i \in 1..Len(list) : P(list[i])})

ScoreIsPromoter(survey)  == survey.nps_score \in 9..10
ScoreIsPassive(survey)   == survey.nps_score \in 7..8
ScoreIsDetractor(survey) == survey.nps_score \in 0..6

\* C1: every score in 0..10 is in exactly one of the bands promoter (>= 9),
\* passive (7..8) and detractor (<= 6): the three counts calculateNPS returns
\* are the sizes of those bands and sum to the number of responses, and the
\* NPS-band filter selects each response under exactly one of its three options.
C1_BandsPartition ==
    rendered =>
        /\ npsData.promoters  = CountWhere(filteredSurveys, ScoreIsPromoter)
        /\ npsData.passives   = CountWhere(filteredSurveys, ScoreIsPassive)
        /\ npsData.detractors = CountWhere(filteredSurveys, ScoreIsDetractor)
        /\ npsData.promoters + npsData.passives + npsData.detractors
               = Len(filteredSurveys)
        /\ \A i \in 1..Len(filteredSurveys) :
               Cardinality({f \in NpsBandOptions :
                               PassesNpsFilter(f, filteredSurveys[i])}) = 1

C1_Witness ==
    /\ rendered
    /\ Len(filteredSurveys) = 4
    /\ npsData.promoters = 2 /\ npsData.passives = 1 /\ npsData.detractors = 1

\* C2: for a non-empty collection the NPS is
\* ((#promoters - #detractors) / total) * 100 rounded half away from zero,
\* for negative exact values as for positive ones.
C2_RoundsHalfAwayFromZero ==
    (rendered /\ Len(filteredSurveys) > 0) =>
        npsData.nps =
            RoundHalfAwayFromZero(
                (CountWhere(filteredSurveys, ScoreIsPromoter)
                   - CountWhere(filteredSurveys, ScoreIsDetractor)) * 100,
                Len(filteredSurveys))

\* C3: for a non-empty collection the NPS is an integer in [-100, 100], 100
\* when every score is a promoter and -100 when every score is a detractor;
\* for the empty collection it is 0 and the three band counts are 0.
C3_NpsBounds ==
    rendered =>
        /\ npsData.nps \in -100..100
        /\ (Len(filteredSurveys) > 0
              /\ \A i \in 1..Len(filteredSurveys) : ScoreIsPromoter(filteredSurveys[i]))
             => npsData.nps = 100
        /\ (Len(filteredSurveys) > 0
              /\ \A i \in 1..Len(filteredSurveys) : ScoreIsDetractor(filteredSurveys[i]))
             => npsData.nps = -100
        /\ Len(filteredSurveys) = 0
             => npsData = [nps |-> 0, promoters |-> 0, passives |-> 0, detractors |-> 0]

C3_Witness ==
    /\ rendered
    /\ Len(filteredSurveys) = 2
    /\ \A i \in 1..Len(filteredSurveys) : filteredSurveys[i].nps_score = 6
    /\ npsData.nps = -100

\* The months in which the filtered responses were created (browser local time)
ObservedMonths ==
    {FormatYearMonth(filteredSurveys[i].created_at) : i \in 1..Len(filteredSurveys)}

\* The <<year, month>> a trend label names
LabelMonth(mes) ==
    <<(mes[5] - 48) * 1000 + (mes[6] - 48) * 100 + (mes[7] - 48) * 10 + (mes[8] - 48),
      CHOOSE m \in 1..12 : MonthAbbrEs[m] = SubSeq(mes, 1, 3)>>

Chronological(ym) == ym[1] * 12 + ym[2]

\* C9: the monthly trend of a collection whose creation instants span N
\* calendar months has exactly N points, strictly ascending in chronological
\* (year, month) order.
C9_TrendChronological ==
    rendered =>
        /\ Len(npsTimeData) = Cardinality(ObservedMonths)
        /\ \A i, j \in 1..Len(npsTimeData) :
               i < j => Chronological(LabelMonth(npsTimeData[i].mes))
                          < Chronological(LabelMonth(npsTimeData[j].mes))

InMonth(ym) ==
    SelectSeq(filteredSurveys, LAMBDA survey : FormatYearMonth(survey.created_at) = ym)

\* C10: every trend point is for a month with at least one response, carries
\* that month's number of filtered responses and the NPS of exactly those
\* responses; the counts of all points sum to the size of the collection.
C10_TrendPointsMatchMonths ==
    rendered =>
        /\ \A k \in 1..Len(npsTimeData) :
               LET point == npsTimeData[k]
                   month == InMonth(LabelMonth(point.mes))
               IN  /\ Len(month) >= 1
                   /\ point.respuestas = Len(month)
                   /\ point.nps = calculateNPS(month).nps
        /\ SumSeq([k \in 1..Len(npsTimeData) |-> npsTimeData[k].respuestas])
               = Len(filteredSurveys)

-----------------------------------------------------------------------------
(* Properties of SpecCharts: averages, composite and referral breakdown *)

\* The filtered responses that name a referral source
WithSource == SelectSeq(filteredSurveys, LAMBDA survey : survey.how_did_you_know_us # NoText)

NormalizedRatings(survey) ==
    LET present == SelectSeq(RatingFields, LAMBDA f : survey[f] # NoRating)
    IN  [i \in 1..Len(present) |->
            Rescale(<<survey[present[i]], 1>>, ScaleMax(present[i]))]

\* The mean of the normalized ratings of a response
NormalizedComposite(survey) ==
    FracOver(FracSum(NormalizedRatings(survey)), Len(NormalizedRatings(survey)))

\* The mean over the rating fields of the normalized field averages
NormalizedSummary(list) ==
    FracOver(FracSum([i \in 1..Len(RatingFields) |->
                         Rescale(FieldAverage(list, RatingFields[i]),
                                 ScaleMax(RatingFields[i]))]),
             Len(RatingFields))

\* C12: every composite satisfaction score is the mean of the rating fields
\* after each is normalized to the 1-10 axis: the summary composite of the
\* dashboard (both versions of it) and the composite of each response that
\* CommentsSection sorts by and labels.
C12_CompositesUseNormalizedRatings ==
    (rendered /\ filteredSurveys # <<>>) =>
        /\ FracEq(averageSatisfaction, NormalizedSummary(filteredSurveys))
        /\ FracEq(averageSatisfactionPlain, NormalizedSummary(filteredSurveys))
        /\ \A i \in 1..Len(filteredSurveys) :
               LET own == calculateAverageSatisfaction(filteredSurveys[i])
               IN  FracEq(Frac(own[1], own[2]), NormalizedComposite(filteredSurveys[i]))

\* The values of a rating field in the responses that have it
PresentValues(list, field) ==
    LET having == SelectSeq(list, LAMBDA survey : survey[field] # NoRating)
    IN  [i \in 1..Len(having) |-> having[i][field]]

\* C13: a response that lacks a rating is left out of that field's average:
\* the average is the sum of the present values over the number of responses
\* that have the field, and no average is NaN.
C13_MissingRatingLeftOutOfAverage ==
    (rendered /\ filteredSurveys # <<>>) =>
        \A f \in Range(RatingFields) :
            /\ ~IsNaN(averages[f])
            /\ PresentValues(filteredSurveys, f) # <<>> =>
                   FracEq(averages[f],
                          Frac(SumSeq(PresentValues(filteredSurveys, f)),
                               Len(PresentValues(filteredSurveys, f))))

\* C14: over an empty filtered collection every aggregation yields a defined
\* empty or zero result, none of them NaN: no per-field average, a numeric
\* composite, NPS 0 with zero counts, an empty trend, an empty referral
\* breakdown and an empty body-zone tally.
C14_EmptyCollectionIsDefined ==
    (rendered /\ filteredSurveys = <<>>) =>
        /\ averages = <<>>
        /\ \A i \in 1..Len(barChartData) : ~IsNaN(barChartData[i].promedio)
        /\ ~IsNaN(averageSatisfaction)
        /\ ~IsNaN(averageSatisfactionPlain)
        /\ npsData = [nps |-> 0, promoters |-> 0, passives |-> 0, detractors |-> 0]
        /\ npsTimeData = <<>>
        /\ referralSourceData = <<>>
        /\ ComputeBodyZoneData(filteredSurveys) = <<>>

\* The bars and the summary composite of a collection
Outputs(list) ==
    [bars      |-> ComputeBarChartData(calculateAverages(list)),
     composite |-> ComputeAverageSatisfaction(calculateAverages(list))]

\* C15: the per-field averages and the composite that an empty filtered
\* collection puts on the screen are a "no data" state: no collection with
\* responses in it puts the same values on the screen.
C15_NoDataIsDistinct ==
    (rendered /\ filteredSurveys # <<>>) =>
        /\ \A i \in 1..Len(barChartData) :
               barChartData[i].promedio # Outputs(<<>>).bars[i].promedio
        /\ averageSatisfaction # Outputs(<<>>).composite

-----------------------------------------------------------------------------
(* Properties of SpecPanel *)

AllReturned == \A k \in 1..Len(fetches) : fetches[k].status = "done"

\* C4: once every fetch issued by the mounted panel has completed, the held
\* collection is the result of the most recently issued fetch (when that one
\* succeeded), whatever order the responses arrived in.
C4_LatestFetchWins ==
    (mounted /\ fetches # <<>> /\ AllReturned /\ ~fetches[Len(fetches)].error)
        => surveys = fetches[Len(fetches)].data

\* A record passes when every active control accepts it
Satisfies(survey) ==
    /\ searchTerm # <<>> => MatchesSearch(survey, searchTerm)
    /\ npsFilter = "promoters"  => ScoreIsPromoter(survey)
    /\ npsFilter = "passives"   => ScoreIsPassive(survey)
    /\ npsFilter = "detractors" => ScoreIsDetractor(survey)
    /\ dateFrom # NoDate => survey.created_at >= dateFrom
    /\ dateTo # NoDate => survey.created_at <= dateTo

\* C5: after any sequence of filter changes and snapshot arrivals the
\* displayed collection holds exactly the records of the full held collection
\* that satisfy all active predicates, each once, and applying the predicates
\* in the opposite order selects the same set.
C5_FilteredFromFullCollection ==
    LET expected == {surveys[i] : i \in {j \in 1..Len(surveys) : Satisfies(surveys[j])}}
    IN  /\ Range(filteredSurveys) = expected
        /\ Len(filteredSurveys) = Cardinality(expected)
        /\ Range(FilterBySearch(FilterByNps(FilterByDateFrom(
                    FilterByDateTo(surveys, dateTo), dateFrom), npsFilter), searchTerm))
             = expected

C5_Witness ==
    /\ mounted
    /\ Len(fetches) = 2 /\ AllReturned
    /\ Len(surveys) = 2
    /\ searchTerm # <<>> /\ npsFilter = "promoters"
    /\ Len(filteredSurveys) = 1

\* C7: the return of a failed fetch leaves the held and the displayed
\* collection as they were, clears the loading flag, and lets no exception
\* escape.
C7_FailedFetchKeepsSnapshot ==
    [][\A k \in 1..Len(fetches) :
          (mounted /\ fetches[k].status = "answered" /\ fetches[k].error
             /\ fetches'[k].status = "done")
            => /\ surveys' = surveys
               /\ filteredSurveys' = filteredSurveys
               /\ isLoading' = FALSE
               /\ unhandled' = FALSE]_vars

C7_Witness ==
    /\ mounted
    /\ Len(fetches) = 2 /\ AllReturned
    /\ fetches[2].error
    /\ toasts = 1
    /\ surveys # <<>>
    /\ ~isLoading

\* C8: a step in which a mounted panel receives an insert notification issues
\* one more fetch, and a step that changes the held collection of a mounted
\* panel replaces it by the data of a fetch that returns in that step.
C8_NotificationRefetches ==
    [][/\ (mounted /\ mounted' /\ pendingNotifs' < pendingNotifs)
            => /\ Len(fetches') = Len(fetches) + 1
               /\ fetches'[Len(fetches')].status = "sent"
               /\ surveys' = surveys
       /\ (mounted' /\ surveys' # surveys)
            => \E k \in 1..Len(fetches) :
                  /\ fetches[k].status = "answered" /\ ~fetches[k].error
                  /\ fetches'[k].status = "done"
                  /\ surveys' = fetches[k].data]_vars

C8_Witness ==
    /\ mounted
    /\ pendingNotifs = 0
    /\ Len(store) = 2
    /\ Len(fetches) = 2 /\ AllReturned
    /\ ~fetches[1].error /\ ~fetches[2].error
    /\ surveys = FetchQuery(store)
    /\ Len(surveys) = 2

-----------------------------------------------------------------------------
(* Properties of SpecForm *)

InFlight == {k \in 1..Len(insertReq) : insertReq[k].status # "done"}

C6State ==
    /\ created <= 1
    /\ Len(store) = created
    /\ Cardinality(InFlight) <= 1
    /\ InFlight # {} => (isSubmitting /\ ~isSubmitted)
    /\ isSubmitted => created = 1
    /\ (created = 1 /\ ~isSubmitted)
         => \E k \in InFlight : insertReq[k].status = "answered" /\ ~insertReq[k].error

C6Step ==
    /\ Len(insertReq') > Len(insertReq)
         => /\ ~isSubmitting /\ ~isSubmitted
            /\ surveySchema(formData)
            /\ insertReq'[Len(insertReq')].data = formData
    /\ \A k \in 1..Len(insertReq) :
         /\ (insertReq[k].status = "sent" /\ insertReq'[k].status = "answered"
               /\ insertReq'[k].error)
              => store' = store /\ created' = created
         /\ (insertReq[k].status = "answered" /\ insertReq[k].error
               /\ insertReq'[k].status = "done")
              => /\ store' = store /\ created' = created
                 /\ isSubmitted' = FALSE
                 /\ isSubmitting' = FALSE

\* C6: one form session creates at most one record, and has created exactly
\* one once it is submitted; an insert is issued only with data that passes
\* the schema, never while another is in flight nor after one succeeded; a
\* failed insert creates no record, leaves isSubmitted false and re-enables
\* the submit button.
C6_RecordCreatedOnce == [](C6State) /\ [][C6Step]_vars

C6_Witness ==
    /\ Len(insertReq) = 2
    /\ insertReq[1].status = "done" /\ insertReq[1].error
    /\ insertReq[2].status = "done" /\ ~insertReq[2].error
    /\ isSubmitted /\ ~isSubmitting
    /\ created = 1 /\ Len(store) = 1

-----------------------------------------------------------------------------
(* Properties of SpecNormalizer *)

Normalized == normalizerOut # NotNormalized

InScale(fn, rating) ==
    FracLeq(<<1, 1>>, rating) /\ FracLeq(rating, <<NormalizerMax(fn), 1>>)

\* C16: each normalizer maps its scale minimum to 1 and its scale maximum to
\* 10, maps the ratings of its scale into [1, 10] in increasing order, and
\* maps a rating below the scale to 1 and one above it to 10, so its result
\* (and the bar drawn from it) is always within [1, 10].
C16_NormalizerMapsScaleOntoAxis ==
    Normalized =>
        LET fn     == normalizerIn.fn
            rating == normalizerIn.rating
            result == normalizerOut.once
        IN  /\ FracLeq(<<1, 1>>, result) /\ FracLeq(result, <<10, 1>>)
            /\ FracLeq(<<1, 1>>, normalizerOut.bar) /\ FracLeq(normalizerOut.bar, <<10, 1>>)
            /\ FracLeq(rating, <<1, 1>>) => result = <<1, 1>>
            /\ FracLeq(<<NormalizerMax(fn), 1>>, rating) => result = <<10, 1>>
            /\ \A other \in SampleRatings :
                   /\ FracLeq(rating, other) => FracLeq(result, Normalize(fn, other))
                   /\ (InScale(fn, rating) /\ InScale(fn, other) /\ FracLess(rating, other))
                          => FracLess(result, Normalize(fn, other))

\* A rating above the 1-5 scale has been normalized to 10, the axis maximum
C16_Witness ==
    /\ Normalized
    /\ normalizerIn.fn = "normalizeOtherRatings"
    /\ normalizerIn.rating = <<6, 1>>
    /\ normalizerOut.once = <<10, 1>>

-----------------------------------------------------------------------------
(* Properties of SpecTreatment *)

\* The number of filtered responses whose effective zone is zone
Treated(zone) ==
    Cardinality({i \in 1..Len(filteredSurveys) : EffectiveZone(filteredSurveys[i]) = zone})

\* The positions of bodyZoneData that hold zone
EntriesOf(zone) == {k \in 1..Len(bodyZoneData) : bodyZoneData[k].zone = zone}

\* C18: a response with body_area 'otra' and the free text v is counted under
\* the key v: the tally has one entry for v, whose count is the number of
\* responses treated for v and whose percentage is that count's share of the
\* filtered responses; the entry 'otra' counts only the responses that give no
\* free text.
C18_OtherZoneCountedUnderItsText ==
    rendered =>
        /\ \A i \in 1..Len(filteredSurveys) :
               LET survey == filteredSurveys[i]
                   v      == survey.other_body_area
               IN  (survey.body_area = "otra" /\ v # NoText) =>
                       /\ Cardinality(EntriesOf(v)) = 1
                       /\ \A k \in EntriesOf(v) :
                              /\ bodyZoneData[k].count = Treated(v)
                              /\ bodyZoneData[k].percentage
                                   = MathRound(Treated(v) * 100, Len(filteredSurveys))
        /\ getZoneCount(bodyZoneData, "otra") = Treated("otra")

\* C19: the tally has exactly one entry per effective zone of the filtered
\* responses, the counts add up to the number of filtered responses, each
\* percentage is the entry's count as a share of that number, and the entries
\* are in non-increasing order of count.
C19_TallyCoversEveryResponse ==
    rendered =>
        /\ {bodyZoneData[k].zone : k \in 1..Len(bodyZoneData)}
             = {EffectiveZone(filteredSurveys[i]) : i \in 1..Len(filteredSurveys)}
        /\ \A k \in 1..Len(bodyZoneData) : EntriesOf(bodyZoneData[k].zone) = {k}
        /\ SumSeq([k \in 1..Len(bodyZoneData) |-> bodyZoneData[k].count])
             = Len(filteredSurveys)
        /\ \A k \in 1..Len(bodyZoneData) :
               bodyZoneData[k].percentage
                 = MathRound(bodyZoneData[k].count * 100, Len(filteredSurveys))
        /\ \A k \in 1..(Len(bodyZoneData) - 1) :
               bodyZoneData[k].count >= bodyZoneData[k + 1].count

\* The intensity tier of a count
Tier(count) ==
    IF count = 0 THEN "none"
    ELSE IF count <= 2 THEN "low"
    ELSE IF count <= 5 THEN "medium"
    ELSE IF count <= 10 THEN "high"
    ELSE "veryHigh"

\* The tier a colour of the body diagram stands for
DiagramTier(colour) ==
    IF colour = "rgba(148, 163, 184, 0.3)" THEN "none"
    ELSE IF colour = "rgba(253, 224, 71, 0.7)" THEN "low"
    ELSE IF colour = "rgba(251, 146, 60, 0.8)" THEN "medium"
    ELSE IF colour = "rgba(248, 113, 113, 0.9)" THEN "high"
    ELSE IF colour = "rgba(239, 68, 68, 1)" THEN "veryHigh"
    ELSE "unknown"

\* The tier a colour of a zone detail card stands for
CardTier(colour) ==
    IF colour = "#f8fafc" THEN "none"
    ELSE IF colour = "#fef3c7" THEN "low"
    ELSE IF colour = "#fed7aa" THEN "medium"
    ELSE IF colour = "#fca5a5" THEN "high"
    ELSE IF colour = "#dc2626" THEN "veryHigh"
    ELSE "unknown"

\* C20: the colour of every zone of the body diagram and of every zone detail
\* card stands for the tier of the zone's count: none for 0, low for 1-2,
\* medium for 3-5, high for 6-10, very high above 10; so the diagram and the
\* cards give a zone the same tier.
C20_SameTierOnDiagramAndCards ==
    rendered =>
        /\ \A z \in DiagramZones :
               DiagramTier(zoneColors.diagram[z]) = Tier(getZoneCount(bodyZoneData, z))
        /\ \A k \in 1..Len(bodyZoneData) :
               /\ CardTier(zoneColors.cards[k]) = Tier(bodyZoneData[k].count)
               /\ bodyZoneData[k].zone \in DiagramZones =>
                      DiagramTier(zoneColors.diagram[bodyZoneData[k].zone])
                        = CardTier(zoneColors.cards[k])

\* Eleven responses for the knee and two for "Tobillo": the knee is very high
\* on the diagram and on its card, "Tobillo" is low, the shoulder has none
C20_Witness ==
    /\ rendered
    /\ Len(bodyZoneData) = 2
    /\ bodyZoneData[1].zone = "rodilla" /\ bodyZoneData[1].count = 11
    /\ bodyZoneData[2].zone = "Tobillo" /\ bodyZoneData[2].count = 2
    /\ zoneColors.diagram["rodilla"] = "rgba(239, 68, 68, 1)"
    /\ zoneColors.cards = <<"#dc2626", "#fef3c7">>
    /\ zoneColors.diagram["hombro"] = "rgba(148, 163, 184, 0.3)"

-----------------------------------------------------------------------------
(* Properties of SpecFields *)

\* The rows the form has sent to the store so far
SentRows == {InsertPayload(insertReq[k].data) : k \in 1..Len(insertReq)}

\* C23: whatever the patient edited before submitting, the submitted record
\* has a non-null other_treatment only if treatment_type is 'otro', a
\* non-null other_body_area only if body_area is 'otra', and a non-null
\* referral_details only if how_did_you_know_us is a qualifying source; and
\* a form whose controlling fields have other values validates with the
\* three free-text fields empty.
C23_FreeTextOnlyWithItsSentinel ==
    /\ \A row \in SentRows :
           /\ row.other_treatment # NullText => row.treatment_type = Otro
           /\ row.other_body_area # NullText => row.body_area = Otra
           /\ row.referral_details # NullText
                  => row.how_did_you_know_us \in QualifyingSources
    /\ ( /\ formData.treatment_type \notin {<<>>, Otro}
         /\ formData.body_area \notin {<<>>, Otra}
         /\ formData.how_did_you_know_us \notin QualifyingSources
         /\ formData.other_treatment = <<>>
         /\ formData.other_body_area = <<>>
         /\ formData.referral_details = <<>> )
       => surveySchema(formData)

\* C24: every record that passed the form's schema and was sent by onSubmit
\* satisfies the constraints the store has after all migrations: ratings
\* within their ranges, NPS within 0..10, waiting_time within the store's
\* vocabulary.
C24_SentRowsSatisfyStoreConstraints ==
    \A row \in SentRows : StoreConstraints(row)

-----------------------------------------------------------------------------
(* Properties of SpecBrowse *)

\* The mount fetch has completed successfully and the controls are shown
Browsing ==
    /\ ControlsShown
    /\ Len(fetches) = 1 /\ fetches[1].status = "done" /\ ~fetches[1].error

\* Where a displayed response stands in the collection as it was fetched
FetchedAt(survey) == CHOOSE k \in 1..Len(fetches[1].data) : fetches[1].data[k] = survey

TieUnder(key, a, b) == ~CompareBefore(key, a, b) /\ ~CompareBefore(key, b, a)

\* C22: in a comments browser the displayed order is determined by the
\* collection as fetched and the current search term, NPS band and sort key
\* alone: it is the fetched collection filtered and stably sorted, so
\* responses that tie under the current sort key appear in fetched order
\* whatever sort keys were selected before.
C22_OrderDependsOnControlsOnly ==
    (Browsing /\ panel \in CommentPanels) =>
        /\ Range(filteredSurveys) \subseteq Range(fetches[1].data)
        /\ \A i, j \in 1..Len(filteredSurveys) :
               (i < j /\ TieUnder(sortBy, filteredSurveys[i], filteredSurveys[j]))
                   => FetchedAt(filteredSurveys[i]) < FetchedAt(filteredSurveys[j])

\* A successful fetch completes in this step
FetchCompletes ==
    \E k \in 1..Len(fetches) :
        /\ fetches[k].status = "answered" /\ ~fetches[k].error
        /\ fetches'[k].status = "done"

\* C26: no step of a panel changes the held collection, in its records or
\* their order, unless a fetch completes successfully in it, and no step of
\* a panel writes to the store.
C26_HeldCollectionFrame ==
    [][(surveys' # surveys => FetchCompletes) /\ store' = store]_vars

PageInBounds ==
    /\ 1 <= currentPage
    /\ currentPage <= (IF totalPages > 1 THEN totalPages ELSE 1)

\* The filtered list is recomputed in this step
Recomputed ==
    \/ filteredSurveys' # filteredSurveys
    \/ surveys' # surveys
    \/ <<searchTerm, npsFilter, dateFrom, dateTo, sortBy>>'
           # <<searchTerm, npsFilter, dateFrom, dateTo, sortBy>>

\* C28: in the table and in the comments browsers the current page is always
\* between 1 and max(1, totalPages), totalPages being
\* ceil(|filteredSurveys| / itemsPerPage), and it is 1 right after every
\* recomputation of the filtered list.
C28_PageWithinBounds ==
    [][PageInBounds /\ PageInBounds' /\ (Recomputed => currentPage' = 1)]_vars

\* The reader has filtered the list and then paged to the last of its
\* several pages
C28_Witness ==
    /\ Browsing
    /\ searchTerm # <<>>
    /\ totalPages >= 2
    /\ currentPage = totalPages

-----------------------------------------------------------------------------
(* Properties of SpecDateRange *)

CustomRangeSelected == panel \in {"charts", "treatment"} /\ dateFilter = "custom"

\* C21: with the custom range selected, a held response is displayed iff it
\* was created at or after the lower bound, when one is picked, and at or
\* before the upper bound, when one is picked; with no bound picked every
\* held response is displayed.  (The bounds are the instants the panel
\* compares with: the picked dates in SurveyCharts, the start of the picked
\* "from" day and the end of the picked "to" day in TreatmentAnalytics.)
C21_CustomRangeInclusive ==
    CustomRangeSelected =>
        /\ \A i \in 1..Len(surveys) :
               (surveys[i] \in Range(filteredSurveys)) <=>
                   /\ customDateFrom # NoDate =>
                          surveys[i].created_at >= CustomFromBound(panel, customDateFrom)
                   /\ customDateTo # NoDate =>
                          surveys[i].created_at <= CustomToBound(panel, customDateTo)
        /\ Range(filteredSurveys) \subseteq Range(surveys)
        /\ (customDateFrom = NoDate /\ customDateTo = NoDate) => filteredSurveys = surveys

\* Both bounds are picked; a response created exactly at the upper bound is
\* displayed and a later one is not
C21_Witness ==
    /\ panel = "charts" /\ dateFilter = "custom"
    /\ customDateFrom # NoDate /\ customDateTo # NoDate
    /\ \E i \in 1..Len(filteredSurveys) : filteredSurveys[i].created_at = customDateTo
    /\ \E i \in 1..Len(surveys) :
           surveys[i].created_at > customDateTo /\ surveys[i] \notin Range(filteredSurveys)

\* What the panel of the given kind displays of the held collection for the
\* range [from, to]
SelectedBy(kind, from, to) ==
    IF kind = "table"
    THEN Range(filterSurveys(surveys, <<>>, "all", from, to))
    ELSE Range(filterSurveysByDate(kind, surveys, "custom", from, to))

\* The range selected in the mounted panel
RangeFrom == IF panel = "table" THEN dateFrom ELSE customDateFrom
RangeTo   == IF panel = "table" THEN dateTo ELSE customDateTo

\* C29: for the held collection and the range selected in the mounted panel,
\* the charts panel, the table panel and the treatment-analytics panel
\* select the same responses.
C29_PanelsSelectTheSame ==
    (panel = "table" \/ dateFilter = "custom") =>
        /\ Range(filteredSurveys) = SelectedBy(panel, RangeFrom, RangeTo)
        /\ SelectedBy("charts", RangeFrom, RangeTo) = SelectedBy("table", RangeFrom, RangeTo)
        /\ SelectedBy("table", RangeFrom, RangeTo) = SelectedBy("treatment", RangeFrom, RangeTo)

-----------------------------------------------------------------------------
(* Properties of SpecRoles *)

\* The client whose statement this step runs was an admin before it
ActorIsAdmin == Authenticated(lastRequest'.who) /\ has_role(lastRequest'.who, "admin")

\* C25: a select on survey_responses returns rows only to a signed-in client
\* holding the doctor or the admin role; an insert into survey_responses is
\* accepted from every client; rows of user_roles are inserted, updated or
\* deleted only by an admin; and no statement of a client that is no admin
\* gives any client read access to the responses.
C25_RowLevelSecurity ==
    [][ /\ (lastRequest'.op = "select_surveys" /\ lastRequest'.rows # <<>>)
            => /\ Authenticated(lastRequest'.who)
               /\ \/ <<lastRequest'.who, "doctor">> \in userRoles
                  \/ <<lastRequest'.who, "admin">> \in userRoles
        /\ lastRequest'.op = "insert_survey"
            => ~lastRequest'.denied /\ Len(store') = Len(store) + 1
        /\ userRoles' # userRoles => ActorIsAdmin
        /\ \A who \in Clients :
               (StaffCanViewSurveys(who)' /\ ~StaffCanViewSurveys(who)) => ActorIsAdmin
      ]_vars

\* bob, who held no role at first, reads the responses after an admin gave
\* him one
C25_Witness ==
    /\ lastRequest.op = "select_surveys"
    /\ lastRequest.who = "bob"
    /\ lastRequest.rows # <<>>

-----------------------------------------------------------------------------
(* Properties of SpecMigration *)

MigrationDone == ~migration.failed /\ migration.pc > Len(Scripts[migration.script])

\* C27: a vocabulary migration run against a table of old waiting_time
\* values runs to its end, no statement violating the constraint in force
\* when it executes, and once it has run every row holds malo, normal or
\* bueno, the image of its old value under the mapping.
C27_MigrationRunsThrough ==
    /\ ~migration.failed
    /\ AllSatisfy(waitingCheck, waitingColumn)
    /\ MigrationDone =>
           /\ waitingCheck = CheckOf(NewWaitingTimes)
           /\ Len(waitingColumn) = Len(migration.before)
           /\ \A i \in 1..Len(waitingColumn) :
                  /\ waitingColumn[i] \in NewWaitingTimes
                  /\ waitingColumn[i] = MapWaitingTime(migration.before[i])

-----------------------------------------------------------------------------
(* Properties of SpecDashboard *)

\* This step runs the then-callback of a session check that found no user
CheckReportsNoUser ==
    \E k \in 1..Len(sessionChecks) :
        /\ sessionChecks[k].status = "answered" /\ sessionChecks[k].user = NoUser
        /\ sessionChecks'[k].status = "done"

\* This step calls the subscribed listener with no user: the initial
\* session, or the end of the session
ListenerReportsNoUser ==
    /\ listener.subscribed
    /\ authSession' = NoUser
    /\ \/ authSession # NoUser
       \/ listener.initial /\ ~listener'.initial /\ sessionChecks' = sessionChecks

ReportsNoUser == CheckReportsNoUser \/ ListenerReportsNoUser

RenderGuardsHold == PanelsRendered => (~dashboard.isLoading /\ dashboard.user # NoUser)

\* Nothing of the auth effect is outstanding: no effect run is due, the
\* initial session was delivered and every session check has returned
Settled ==
    /\ ~dashboard.effectDue
    /\ ~listener.initial
    /\ \A k \in 1..Len(sessionChecks) : sessionChecks[k].status = "done"

\* C30 as stated: the panels are rendered only when loading has finished
\* and the user is non-null, and every step in which the session check or
\* the listener reports no user leaves no panel rendered and navigates to
\* /login.
C30_EveryReportNavigates ==
    [][ /\ RenderGuardsHold'
        /\ ReportsNoUser => (~PanelsRendered' /\ dashboard'.route = "/login")
      ]_vars

\* C30 as amended: the panels are rendered only when loading has finished
\* and the user is non-null; every report of no user leaves no panel
\* rendered; the session check, and a listener subscribed after loading
\* finished, navigate to /login in the step that reports no user; a listener
\* subscribed while loading does not, and then the page is at /login once
\* the auth effect has settled with a null user.
C30_PanelsOnlyForSignedInUser ==
    [][ /\ RenderGuardsHold'
        /\ ReportsNoUser => ~PanelsRendered'
        /\ (CheckReportsNoUser \/ (ListenerReportsNoUser /\ ~listener.isLoading))
               => dashboard'.route = "/login"
        /\ (Settled' /\ dashboard'.user = NoUser) => dashboard'.route = "/login"
      ]_vars

\* Both session checks found a user and the panels were rendered; a later
\* auth change then reported no user and the page went to /login
C30_Witness ==
    /\ dashboard.route = "/login"
    /\ dashboard.user = NoUser
    /\ Len(sessionChecks) = 2
    /\ \A k \in 1..2 : sessionChecks[k].status = "done" /\ sessionChecks[k].user # NoUser

====
